---- MODULE Spec2Model ----
(***************************************************************************)
(* A model of the Logica parser core (src/parser_cpp/logica_parse.cpp):    *)
(* the post-parse rewrites over a file's rule list and the import          *)
(* resolver.                                                               *)
(*                                                                         *)
(* Json values are modelled directly: a Json object is a TLA+ record (a    *)
(* function from key strings), a Json array is a sequence, a Json string   *)
(* is a string and a Json bool is a BOOLEAN.  The key of a slot fixes the  *)
(* Json type of its value (ArrayKeys, ScalarKeys; every other key holds an *)
(* object), which is how the generic tree walks of the code               *)
(* (RenamePredicate, RewriteAggregationsInternal) decide where to descend. *)
(* The slots whose scalar type varies in the code are tagged: "field", and *)
(* "var_name" (which split_aggregation fills with a field), is [str |-> s] *)
(* or [int |-> n]; "synonym" is [str |-> s] or [null |-> TRUE].             *)
(***************************************************************************)
EXTENDS Integers, Sequences, FiniteSets, TLC

VARIABLES
  \* ---- one file's statements and rewrites (ParseFileInternal, 2127-2171) ----
  statements,   \* the rule statements of the file, as rule sources
  stage,        \* "source", "dnf", "multi", "rewritten" or "error"
  error,        \* the message of the ParsingException thrown, "" if none
  rules_in,     \* the rule list as the statement loop collected it
  rules_prev,   \* the rule list handed to the rewrite that ran last
  rules,        \* the rule list after the rewrites run so far
  \* ---- ParseFile with imports (ParseFile, ParseImport, ParseFileInternal) ----
  content,         \* the statements of the text handed to ParseFile
  fs,              \* the files under the import root: path -> statements
  stack,           \* the frames of the ParseFileInternal calls in progress
  parsed_imports,  \* the std::map of ParseFile: import string -> parsed file
  in_progress,     \* the std::set of ParseFile
  outcome,         \* of ParseFile: running, returned (value) or thrown (what)
  registered,      \* history: the import strings in the order they were stored
  clock,           \* history: how many steps ParseFile has taken
  \* ---- spans and their traversal (Traverser and the functions built on it) ----
  heritage,        \* the characters of the text a span is cut from
  separator,       \* the separator handed to SplitRaw and Split
  traverser,       \* the Traverser over the whole text: idx, state, and whether
                   \* Next has returned false
  steps,           \* history: the TraverseSteps that Next has handed out
  returned,        \* what the functions called on the text have returned or thrown
  \* ---- a process that calls ParseFile more than once ----
  TOO_MUCH,        \* the static std::string TOO_MUCH
  parses,          \* history: the source and the result of each ParseFile call
  \* ---- one call of ParseRecordInternals ----
  record_call,     \* its arguments: the field values of the text, as record
                   \* entries, is_record_literal and is_aggregation_allowed
  record_result    \* what it returned or threw, <<>> before the call

rvars == <<statements, stage, error, rules_in, rules_prev, rules>>

ivars == <<content, fs, stack, parsed_imports, in_progress, outcome, registered, clock>>

tvars == <<heritage, separator, traverser, steps, returned>>

pvars == <<TOO_MUCH, parses>>

cvars == <<record_call, record_result>>

vars == <<rvars, ivars, tvars, pvars, cvars>>

-----------------------------------------------------------------------------
(* Sequence helpers.                                                       *)

RECURSIVE Flatten(_)
Flatten(ss) == IF ss = <<>> THEN <<>> ELSE Head(ss) \o Flatten(Tail(ss))

Range(s) == {s[i] : i \in DOMAIN s}

RECURSIVE SumSeq(_)
SumSeq(s) == IF s = <<>> THEN 0 ELSE Head(s) + SumSeq(Tail(s))

RECURSIVE ProdSeq(_)
ProdSeq(s) == IF s = <<>> THEN 1 ELSE Head(s) * ProdSeq(Tail(s))

-----------------------------------------------------------------------------
(* Json.                                                                   *)

ArrayKeys == {"field_value", "conjunct", "disjunct"}

ScalarKeys == {"predicate_name", "field", "operator", "expression_heritage",
               "full_text", "distinct_denoted", "var_name", "number"}

StrJ(s) == [str |-> s]

IntJ(n) == [int |-> n]

HasKey(j, k) == k \in DOMAIN j

\* o with key k set to v (JsonObject operator[] assignment).
SetKey(o, k, v) == [x \in (DOMAIN o) \cup {k} |-> IF x = k THEN v ELSE o[x]]

\* o without key k (JsonObject erase).
EraseKey(o, k) == [x \in (DOMAIN o) \ {k} |-> o[x]]

-----------------------------------------------------------------------------
(* DnfRewrite.                                                             *)

\* The cross product with the left operand varying fastest.
CrossLeftFastest(first, other) ==
  [k \in 1..(Len(first) * Len(other)) |->
     first[((k - 1) % Len(first)) + 1] \o other[((k - 1) \div Len(first)) + 1]]

\* The two nested loops of conjunction_of_dnfs: for a in first, for b in other.
CrossLeftSlowest(first, other) ==
  [k \in 1..(Len(first) * Len(other)) |->
     first[((k - 1) \div Len(other)) + 1] \o other[((k - 1) % Len(other)) + 1]]

RECURSIVE conjunction_of_dnfs(_)
conjunction_of_dnfs(dnfs) ==
  IF dnfs = <<>> THEN << <<>> >>
  ELSE IF Len(dnfs) = 1 THEN dnfs[1]
  ELSE CrossLeftSlowest(dnfs[1], conjunction_of_dnfs(Tail(dnfs)))

RECURSIVE proposition_to_dnf(_)

\* proposition_to_dnf without its disjunction branch.
proposition_to_dnf_keeping(prop) ==
  IF HasKey(prop, "conjunction")
    THEN conjunction_of_dnfs([i \in DOMAIN prop.conjunction.conjunct |->
                                proposition_to_dnf(prop.conjunction.conjunct[i])])
    ELSE << <<prop>> >>

proposition_to_dnf(prop) ==
  IF HasKey(prop, "conjunction")
    THEN LET c == prop.conjunction.conjunct
         IN conjunction_of_dnfs([i \in DOMAIN c |-> proposition_to_dnf(c[i])])
  ELSE IF HasKey(prop, "disjunction")
    THEN LET d == prop.disjunction.disjunct
         IN Flatten([i \in DOMAIN d |-> proposition_to_dnf(d[i])])
  ELSE << <<prop>> >>

\* One copy of `rule` per conjunct list of dnf (the loop of lines 1953-1965).
RulesOfDnf(rule, dnf) ==
  [k \in DOMAIN dnf |-> SetKey(rule, "body", [conjunction |-> [conjunct |-> dnf[k]]])]

\* The rules one input rule contributes to `out`.
DnfOfRule(rule) ==
  IF ~HasKey(rule, "body") THEN <<rule>>
  ELSE RulesOfDnf(rule, proposition_to_dnf(rule.body))

DnfRewrite(rules_json) ==
  Flatten([i \in DOMAIN rules_json |-> DnfOfRule(rules_json[i])])

-----------------------------------------------------------------------------
(* MultiBodyAggregationRewrite.                                            *)

HeadName(r) == r.head.predicate_name

\* names_in_order: head names by first occurrence.
RECURSIVE NamesInOrder(_, _)
NamesInOrder(rs, seen) ==
  IF rs = <<>> THEN <<>>
  ELSE IF HeadName(Head(rs)) \in seen THEN NamesInOrder(Tail(rs), seen)
  ELSE <<HeadName(Head(rs))>> \o NamesInOrder(Tail(rs), seen \cup {HeadName(Head(rs))})

\* by_name.at(n)
ByName(rs, n) == SelectSeq(rs, LAMBDA r : HeadName(r) = n)

\* The guard that puts a name into `multi`.
IsMulti(rs, n) == Len(ByName(rs, n)) > 1 /\ HasKey(ByName(rs, n)[1], "distinct_denoted")

MultiNames(rs) == SelectSeq(NamesInOrder(rs, {}), LAMBDA n : IsMulti(rs, n))

VarOfField(field) == [variable |-> [var_name |-> field]]

\* One field-value of `aggregation` in split_aggregation.
AggregationFv(fv) ==
  IF HasKey(fv.value, "aggregation")
    THEN [field |-> fv.field,
          value |-> [aggregation |->
                       [operator |-> fv.value.aggregation.operator,
                        argument |-> VarOfField(fv.field),
                        expression_heritage |-> fv.value.aggregation.expression_heritage]]]
    ELSE [field |-> fv.field, value |-> [expression |-> VarOfField(fv.field)]]

\* The field-value left as it is, aggregation included.
TransformationFvKept(fv) == fv

\* One field-value of `transformation` in split_aggregation.
TransformationFv(fv) ==
  IF HasKey(fv.value, "aggregation")
    THEN [field |-> fv.field, value |-> [expression |-> fv.value.aggregation.argument]]
    ELSE fv

\* split_aggregation, for a rule that carries distinct_denoted.
SplitAggregation(rule) ==
  LET fvs == rule.head.record.field_value
      r1 == EraseKey(rule, "distinct_denoted")
      head == [predicate_name |-> HeadName(rule) \o "_MultBodyAggAux",
               record |-> [field_value |-> [i \in DOMAIN fvs |-> TransformationFv(fvs[i])]]]
  IN [aggregation |-> [i \in DOMAIN fvs |-> AggregationFv(fvs[i])],
      rule |-> SetKey(r1, "head", head)]

StripAggregationHeritage(field_values) ==
  [i \in DOMAIN field_values |->
     IF HasKey(field_values[i].value, "aggregation")
       THEN SetKey(field_values[i], "value",
                   [aggregation |-> EraseKey(field_values[i].value.aggregation,
                                             "expression_heritage")])
       ELSE field_values[i]]

\* What the loop does with a rule of a multi name once it is split
\* (lines 1857-1867).  acc.sig is agg_fvs_per_pred.
MultiSplit(acc, name, sp) ==
  IF name \in DOMAIN acc.sig
    THEN IF StripAggregationHeritage(acc.sig[name])
              # StripAggregationHeritage(sp.aggregation)
           THEN [acc EXCEPT !.error = "Signature differs for bodies."]
           ELSE [acc EXCEPT !.new_rules = Append(@, sp.rule)]
    ELSE [acc EXCEPT !.new_rules = Append(@, sp.rule),
                     !.sig = SetKey(@, name, sp.aggregation)]

\* One iteration of the loop over `rules` (lines 1853-1871).
MultiRule(acc, rule, multi) ==
  IF HeadName(rule) \notin Range(multi)
    THEN [acc EXCEPT !.new_rules = Append(@, rule)]
  ELSE IF ~HasKey(rule, "distinct_denoted")
    THEN [acc EXCEPT !.error = "Inconsistency in distinct denoting."]
  ELSE MultiSplit(acc, HeadName(rule), SplitAggregation(rule))

RECURSIVE MultiLoop(_, _, _)
MultiLoop(rs, multi, acc) ==
  IF rs = <<>> \/ acc.error # "" THEN acc
  ELSE MultiLoop(Tail(rs), multi, MultiRule(acc, Head(rs), multi))

\* The aggregating rule synthesized for one name of `multi` (lines 1873-1905).
AggregatingRule(rs, name, agg_fvs) ==
  LET same == ByName(rs, name)
      pass_fvs == [i \in DOMAIN agg_fvs |->
                     [field |-> agg_fvs[i].field,
                      value |-> [expression |-> VarOfField(agg_fvs[i].field)]]]
      aux_pred == [predicate_name |-> name \o "_MultBodyAggAux",
                   record |-> [field_value |-> pass_fvs]]
  IN [head |-> [predicate_name |-> name, record |-> [field_value |-> agg_fvs]],
      body |-> [conjunction |-> [conjunct |-> <<[predicate |-> aux_pred]>>]],
      full_text |-> same[Len(same)].full_text,
      distinct_denoted |-> TRUE]

\* The rules returned once the loop is over (lines 1873-1907).
MultiResult(rs, multi, looped) ==
  IF looped.error # "" THEN [error |-> looped.error, new_rules |-> <<>>]
  ELSE [error |-> "",
        new_rules |-> looped.new_rules \o
           [i \in DOMAIN multi |-> AggregatingRule(rs, multi[i], looped.sig[multi[i]])]]

MultiWith(rs, multi) ==
  MultiResult(rs, multi,
              MultiLoop(rs, multi, [new_rules |-> <<>>, sig |-> <<>>, error |-> ""]))

\* Result: [error |-> "" and new_rules] or [error |-> the exception's message].
MultiBodyAggregationRewrite(rs) == MultiWith(rs, MultiNames(rs))

-----------------------------------------------------------------------------
(* RewriteAggregationsAsExpressions.                                       *)

\* The operator name taken as it is written.
AggregationOperatorAsWritten(raw) == raw

\* A TLA+ string cannot hold a backtick: ' stands for it in "'*'".
AggregationOperator(raw) ==
  IF raw = "+" THEN "Agg+"
  ELSE IF raw = "++" THEN "Agg++"
  ELSE IF raw = "*" THEN "'*'"
  ELSE raw

AggregationConvert(a) ==
  [call |-> [predicate_name |-> AggregationOperator(a.operator),
             record |-> [field_value |->
                           <<[field |-> [int |-> 0],
                              value |-> [expression |-> a.argument]]>>]],
   expression_heritage |-> a.expression_heritage]

\* What the first loop of RewriteAggregationsInternal leaves in a slot v that
\* holds an "aggregation" key (lines 1996-2000).
ConvertSlot(v) ==
  SetKey(v, "aggregation",
         SetKey(EraseKey(EraseKey(v.aggregation, "operator"), "argument"),
                "expression", AggregationConvert(v.aggregation)))

IsObjectKey(k) == k \notin ArrayKeys /\ k \notin ScalarKeys

\* The first loop of RewriteAggregationsInternal (lines 1991-2003).
ConvertMembers(o) ==
  [k \in DOMAIN o |->
     IF IsObjectKey(k) /\ HasKey(o[k], "aggregation") THEN ConvertSlot(o[k]) ELSE o[k]]

RECURSIVE RewriteMembers(_)
RECURSIVE RewriteAggregationsInternal(_)
\* The second loop of RewriteAggregationsInternal (lines 2004-2006); an array
\* member is walked by the branch of lines 2007-2011.
RewriteMembers(o1) ==
  [k \in DOMAIN o1 |->
     IF IsObjectKey(k) THEN RewriteAggregationsInternal(o1[k])
     ELSE IF k \in ArrayKeys
       THEN [i \in DOMAIN o1[k] |-> RewriteAggregationsInternal(o1[k][i])]
     ELSE o1[k]]

RewriteAggregationsInternal(o) == RewriteMembers(ConvertMembers(o))

RewriteAggregationsAsExpressions(rs) ==
  [i \in DOMAIN rs |-> RewriteAggregationsInternal(rs[i])]

-----------------------------------------------------------------------------
(* The trees the parser builds, as far as the rewrites look at them.       *)

\* ParseVariable under ParseExpression: a variable with its heritage.
VarExpr(x) == [variable |-> [var_name |-> StrJ(x)], expression_heritage |-> x]

\* ParseCall under ParseProposition: the proposition `name(x)`.
PredicateProp(name) ==
  [predicate |->
     [predicate_name |-> name,
      record |-> [field_value |->
                    <<[field |-> IntJ(0), value |-> [expression |-> VarExpr("x")]]>>]]]

NegationTree(s, negated_proposition) ==
  LET number_one == [literal |-> [the_number |-> [number |-> "1"]]]
      agg == [operator |-> "Min", argument |-> number_one, expression_heritage |-> s]
      fv == [field |-> StrJ("logica_value"), value |-> [aggregation |-> agg]]
      combine == [body |-> negated_proposition,
                  distinct_denoted |-> TRUE,
                  full_text |-> s,
                  head |-> [predicate_name |-> "Combine",
                            record |-> [field_value |-> <<fv>>]]]
      isnull == [predicate_name |-> "IsNull",
                 record |-> [field_value |->
                               <<[field |-> IntJ(0),
                                  value |-> [expression |-> [combine |-> combine]]]>>]]
  IN [predicate |-> isnull]

Conjunction(conj) == [conjunction |-> [conjunct |-> conj]]

Disjunction(disj) == [disjunction |-> [disjunct |-> disj]]

\* ParseNegation of the text s = "~(" t ")", whose conjuncts parsed to `conjuncts`.
ParseNegation(s, conjuncts) == NegationTree(s, Conjunction(conjuncts))

-----------------------------------------------------------------------------
(* Bounded inputs of the rewrites: proposition trees by size (leaves plus  *)
(* negations), every leaf a different predicate, each with its source text.*)

MaxSize == 4

LeafName(i) == "P" \o ToString(i)

IsCompound(p) == HasKey(p, "conjunction") \/ HasKey(p, "disjunction")

\* The text of a part of a `,` or `|` list: compound parts are parenthesized.
PartText(g) == IF IsCompound(g.p) THEN "(" \o g.t \o ")" ELSE g.t

RECURSIVE JoinText(_, _)
JoinText(gs, sep) ==
  IF Len(gs) = 1 THEN PartText(gs[1])
  ELSE PartText(gs[1]) \o sep \o JoinText(Tail(gs), sep)

Parts(gs) == [i \in DOMAIN gs |-> gs[i].p]

\* What Split(negated, ",") and ParseProposition give for the text of tree p.
NegatedConjuncts(p) == IF HasKey(p, "conjunction") THEN p.conjunction.conjunct ELSE <<p>>

\* Trees of size n whose leaves are named from `start` on: [p: tree, t: text].
RECURSIVE GenProp(_, _)
GenProp(n, start) ==
  IF n = 1 THEN {[p |-> PredicateProp(LeafName(start)), t |-> LeafName(start) \o "(x)"]}
  ELSE
    LET pairs == UNION {GenProp(k, start) \X GenProp(n - k, start + k) : k \in 1..(n - 1)}
        triples == UNION {GenProp(k[1], start) \X GenProp(k[2], start + k[1])
                            \X GenProp(n - k[1] - k[2], start + k[1] + k[2])
                          : k \in {kk \in (1..n) \X (1..n) : kk[1] + kk[2] < n}}
        lists == pairs \cup triples
    IN {[p |-> ParseNegation("~(" \o g.t \o ")", NegatedConjuncts(g.p)),
         t |-> "~(" \o g.t \o ")"] : g \in GenProp(n - 1, start + 1)}
       \cup {[p |-> Conjunction(Parts(gs)), t |-> JoinText(gs, ", ")] : gs \in lists}
       \cup {[p |-> Disjunction(Parts(gs)), t |-> JoinText(gs, " | ")] : gs \in lists}

Bodies == UNION {GenProp(n, 1) : n \in 1..MaxSize}

-----------------------------------------------------------------------------
(* Rule parsing.  A rule source is the statement after its top-level       *)
(* splits: the call's predicate name and record entries, the parts of      *)
(* Split(post_call_str, "="), the text after `distinct` (NoDistinct when   *)
(* the head has no such word) and the parsed body.  Expression texts are   *)
(* variable identifiers.                                                   *)

UpperAlpha == "ABCDEFGHIJKLMNOPQRSTUVWXYZ"

LowerAlpha == "abcdefghijklmnopqrstuvwxyz"

CharAt(s, i) == SubSeq(s, i, i)

\* 1-based position of character c in s, 0 when absent.
RECURSIVE IndexIn(_, _, _)
IndexIn(s, c, i) ==
  IF i > Len(s) THEN 0 ELSE IF CharAt(s, i) = c THEN i ELSE IndexIn(s, c, i + 1)

IsUpper(c) == IndexIn(UpperAlpha, c, 1) > 0

IsLower(c) == IndexIn(LowerAlpha, c, 1) > 0

\* std::to_string is ToString of module TLC.

\* ParseExpression on the text of a variable: ParseVariable matches.
ParseExpression(s) == VarExpr(s)

\* The body of the for loop of ParseRecordInternals for entry e at index idx.
RecordEntry(st, e, idx, is_record_literal, is_aggregation_allowed) ==
  IF st.had_restof THEN [st EXCEPT !.error = "Field ..<rest_of> must go last."]
  ELSE IF e.kind = "restof" THEN
    IF is_record_literal
      THEN [st EXCEPT !.error = "Field ..<rest_of> in record literals is not currently suppported."]
      ELSE LET item == [field |-> StrJ("*"), value |-> [expression |-> ParseExpression(e.expr)]]
               full == IF st.observed_fields # <<>>
                         THEN SetKey(item, "except", st.observed_fields) ELSE item
           IN [st EXCEPT !.result = Append(@, full), !.had_restof = TRUE,
                         !.positional_ok = FALSE]
  ELSE IF e.kind = "named" THEN
    IF e.value = "" /\ e.field # "" /\ IsUpper(CharAt(e.field, 1))
      THEN [st EXCEPT !.error = "Record fields may not start with capital letter."]
      ELSE [st EXCEPT !.positional_ok = FALSE,
                      !.result = Append(@, [field |-> StrJ(e.field),
                                            value |-> [expression |->
                                               ParseExpression(IF e.value = "" THEN e.field
                                                               ELSE e.value)]]),
                      !.observed_fields = Append(@, e.field)]
  ELSE IF e.kind = "aggregated" THEN
    IF ~is_aggregation_allowed
      THEN [st EXCEPT !.error = "Aggregation of fields is only allowed in the head of a rule."]
    ELSE IF e.field = ""
      THEN [st EXCEPT !.error = "Aggregated fields have to be named."]
    ELSE [st EXCEPT !.positional_ok = FALSE,
                    !.result = Append(@, [field |-> StrJ(e.field),
                                          value |-> [aggregation |->
                                             [operator |-> e.op,
                                              argument |-> ParseExpression(e.expr),
                                              expression_heritage |-> e.op \o "= " \o e.expr]]]),
                    !.observed_fields = Append(@, e.field)]
  ELSE IF st.positional_ok
    THEN [st EXCEPT !.result = Append(@, [field |-> IntJ(idx),
                                          value |-> [expression |-> ParseExpression(e.expr)]]),
                    !.observed_fields = Append(@, "col" \o ToString(idx))]
    ELSE [st EXCEPT !.error = "Positional argument can not go after non-positional arguments."]

\* The loop with positional_ok set again after every entry.
RECURSIVE RecordLoopPositionalAnywhere(_, _, _, _, _)
RecordLoopPositionalAnywhere(st, entries, idx, is_record_literal, is_aggregation_allowed) ==
  IF idx >= Len(entries) \/ st.error # "" THEN st
  ELSE RecordLoopPositionalAnywhere(
         [RecordEntry(st, entries[idx + 1], idx, is_record_literal, is_aggregation_allowed)
            EXCEPT !.positional_ok = TRUE],
         entries, idx + 1, is_record_literal, is_aggregation_allowed)

\* The for loop of lines 895-975.
RECURSIVE RecordLoop(_, _, _, _, _)
RecordLoop(st, entries, idx, is_record_literal, is_aggregation_allowed) ==
  IF idx >= Len(entries) \/ st.error # "" THEN st
  ELSE RecordLoop(RecordEntry(st, entries[idx + 1], idx, is_record_literal,
                              is_aggregation_allowed),
                  entries, idx + 1, is_record_literal, is_aggregation_allowed)

RecordResult(st) == [error |-> st.error, field_value |-> st.result]

\* ParseRecordInternals with the `col<idx>` names of the positional entries
\* left out of every `except` list.
ParseRecordInternalsNamedExcept(entries, is_record_literal, is_aggregation_allowed) ==
  LET r == RecordResult(RecordLoop([result |-> <<>>, had_restof |-> FALSE,
                                    positional_ok |-> TRUE, observed_fields |-> <<>>,
                                    error |-> ""],
                                   entries, 0, is_record_literal, is_aggregation_allowed))
      named(n) == \A i \in DOMAIN entries : n # "col" \o ToString(i - 1)
  IN [r EXCEPT !.field_value =
        [i \in DOMAIN @ |->
           IF HasKey(@[i], "except")
             THEN [@[i] EXCEPT !.except = SelectSeq(@, named)]
             ELSE @[i]]]

\* Result: [error, field_value].
ParseRecordInternals(entries, is_record_literal, is_aggregation_allowed) ==
  RecordResult(RecordLoop([result |-> <<>>, had_restof |-> FALSE, positional_ok |-> TRUE,
                           observed_fields |-> <<>>, error |-> ""],
                          entries, 0, is_record_literal, is_aggregation_allowed))

CallOf(name, args) ==
  [error |-> args.error,
   call |-> [predicate_name |-> name, record |-> [field_value |-> args.field_value]]]

\* Result: [error, call].
ParseCall(name, entries, is_aggregation_allowed) ==
  CallOf(name, ParseRecordInternals(entries, FALSE, is_aggregation_allowed))

\* A check_agg that never throws.
CheckAggNever(call, distinct_from_outside) == ""

\* check_agg of ParseHeadCall: the error it throws, "" when it returns.
CheckAgg(call, distinct_from_outside) ==
  IF distinct_from_outside THEN ""
  ELSE IF \E i \in DOMAIN call.record.field_value :
            HasKey(call.record.field_value[i].value, "aggregation")
    THEN "Aggregation appears in a non-distinct predicate. Did you forget distinct?"
  ELSE ""

PushFieldValue(call, fv) ==
  [call EXCEPT !.record.field_value = Append(@, fv)]

\* Text of post_call_str for the parts op_expr of its split on "=".
PostCallText(op_expr) == " " \o op_expr[1] \o "= " \o op_expr[2]

HeadFail(msg, call) == [error |-> msg, call |-> call, is_distinct |-> FALSE]

\* ParseHeadCall where it returns after check_agg (lines 1561-1562, 1573-1574).
HeadWithValue(c, distinct_from_outside) ==
  [error |-> CheckAgg(c, distinct_from_outside), call |-> c, is_distinct |-> FALSE]

\* ParseHeadCall once the call before post_call_str is parsed (lines 1556-1585).
HeadCallOf(parsed, op_expr, distinct_from_outside) ==
  IF parsed.error # "" THEN HeadFail(parsed.error, parsed.call)
  ELSE IF Len(op_expr) = 1 THEN
    IF op_expr[1] # ""
      THEN HeadFail("Unexpected text in the head of a rule.", parsed.call)
      ELSE HeadWithValue(parsed.call, distinct_from_outside)
  ELSE IF Len(op_expr) > 2 THEN HeadFail("Too many '=' in predicate value.", parsed.call)
  ELSE IF op_expr[1] = "" THEN
    HeadWithValue(PushFieldValue(parsed.call,
                    [field |-> StrJ("logica_value"),
                     value |-> [expression |-> ParseExpression(op_expr[2])]]),
                  distinct_from_outside)
  ELSE
    [error |-> "",
     call |-> PushFieldValue(parsed.call,
                [field |-> StrJ("logica_value"),
                 value |-> [aggregation |->
                              [operator |-> op_expr[1],
                               argument |-> ParseExpression(op_expr[2]),
                               expression_heritage |-> PostCallText(op_expr)]]]),
     is_distinct |-> TRUE]

\* Result: [error, call, is_distinct].
ParseHeadCall(h, distinct_from_outside) ==
  HeadCallOf(ParseCall(h.name, h.entries, TRUE), h.post, distinct_from_outside)

\* No `distinct` word in the head: Split(head, "distinct") has one part.
NoDistinct == "<none>"

\* The rule ParseRule builds around the head call hd (lines 1671-1694).
RuleOfHead(src, hd) ==
  [k \in {"head", "full_text"}
        \cup (IF src.after_distinct # NoDistinct \/ hd.is_distinct
                THEN {"distinct_denoted"} ELSE {})
        \cup (IF src.has_body THEN {"body"} ELSE {}) |->
     IF k = "head" THEN hd.call
     ELSE IF k = "full_text" THEN src.text
     ELSE IF k = "body" THEN src.body
     ELSE TRUE]

RuleResult(src, hd) == [error |-> hd.error, rule |-> RuleOfHead(src, hd)]

\* Result: [error, rule].
ParseRule(src) ==
  IF src.after_distinct \notin {NoDistinct, ""}
    THEN [error |-> "Can not parse rule head. Something is wrong with distinct.",
          rule |-> <<>>]
    ELSE RuleResult(src, ParseHeadCall(src, src.after_distinct # NoDistinct))

-----------------------------------------------------------------------------
(* Bounded rule sources.                                                   *)

MaxEntries == 2

Positional == [kind |-> "positional", expr |-> "x"]

Named == [kind |-> "named", field |-> "a", value |-> "x"]

Aggregated == [kind |-> "aggregated", field |-> "y", op |-> "Max", expr |-> "x"]

EntryText(e) ==
  IF e.kind = "positional" THEN e.expr
  ELSE IF e.kind = "named" THEN e.field \o ": " \o e.value
  ELSE IF e.kind = "aggregated" THEN e.field \o "? " \o e.op \o "= " \o e.expr
  ELSE ".." \o e.expr

RECURSIVE EntriesText(_)
EntriesText(es) ==
  IF es = <<>> THEN ""
  ELSE IF Len(es) = 1 THEN EntryText(es[1])
  ELSE EntryText(es[1]) \o ", " \o EntriesText(Tail(es))

PostText(post) ==
  IF Len(post) = 1 THEN (IF post[1] = "" THEN "" ELSE " " \o post[1])
  ELSE IF Len(post) = 2 THEN PostCallText(post)
  ELSE " = " \o post[2] \o " = " \o post[3]

HeadText(name, entries, post, after_distinct) ==
  name \o "(" \o EntriesText(entries) \o ")" \o PostText(post)
  \o (IF after_distinct = NoDistinct THEN ""
      ELSE IF after_distinct = "" THEN " distinct" ELSE " distinct " \o after_distinct)

EntryLists == UNION {[1..n -> {Positional, Named, Aggregated}] : n \in 0..MaxEntries}

PostParts == {<<"">>, <<"junk">>, <<"", "x">>, <<"Max", "x">>, <<"", "x", "y">>}

RuleSource(name, entries, post, after_distinct, g) ==
  [name |-> name, entries |-> entries, post |-> post, after_distinct |-> after_distinct,
   has_body |-> g.t # "", body |-> g.p,
   text |-> HeadText(name, entries, post, after_distinct)
            \o (IF g.t = "" THEN "" ELSE " :- " \o g.t)]

\* A rule without `:-`.
NoBody == [p |-> <<>>, t |-> ""]

\* Every head shape, without a body.
HeadSources ==
  {RuleSource("Q", es, post, ad, NoBody) :
     es \in EntryLists, post \in PostParts, ad \in {NoDistinct, "", "junk"}}

\* First rules of a file: a few heads, every body.
FirstSources ==
  {RuleSource("Q", es, post, ad, g) :
     es \in {<<Positional>>, <<Aggregated>>}, post \in {<<"">>, <<"+", "x">>},
     ad \in {NoDistinct, ""}, g \in Bodies \cup {NoBody}}

LastLeaf == [p |-> PredicateProp("P9"), t |-> "P9(x)"]

\* Second rules of a file.
SecondSources ==
  {RuleSource("R", <<Positional>>, <<"">>, NoDistinct, NoBody),
   RuleSource("Q", <<Positional>>, <<"">>, NoDistinct, LastLeaf),
   RuleSource("Q", <<Aggregated>>, <<"">>, "", LastLeaf),
   RuleSource("Q", <<Positional>>, <<"+", "x">>, "", LastLeaf)}

Sources ==
  {<<h>> : h \in HeadSources} \cup {<<f>> : f \in FirstSources}
  \cup {<<f, g>> : f \in FirstSources, g \in SecondSources}

-----------------------------------------------------------------------------
(* The statement loop and the rewrites of ParseFileInternal, for a file    *)
(* of rule statements.                                                     *)

InitRewrite ==
  /\ statements \in Sources
  /\ stage = "source"
  /\ error = ""
  /\ rules_in = <<>>
  /\ rules_prev = <<>>
  /\ rules = <<>>
  /\ content = <<>>
  /\ fs = <<>>
  /\ stack = <<>>
  /\ parsed_imports = <<>>
  /\ in_progress = {}
  /\ outcome = [state |-> "idle"]
  /\ registered = <<>>
  /\ clock = 0
  /\ heritage = <<>>
  /\ separator = <<>>
  /\ traverser = [idx |-> -1, state |-> <<>>, more |-> FALSE]
  /\ steps = <<>>
  /\ returned = <<>>
  /\ TOO_MUCH = "too much"
  /\ parses = <<>>
  /\ record_call = <<>>
  /\ record_result = <<>>

\* One iteration of the statement loop (lines 2127-2165) on a rule statement.
ParseStatementOk ==
  /\ stage = "source"
  /\ Len(rules) < Len(statements)
  /\ \E parsed \in {ParseRule(statements[Len(rules) + 1])} :
       /\ parsed.error = ""
       /\ rules' = Append(rules, parsed.rule)
  /\ UNCHANGED <<statements, stage, error, rules_in, rules_prev, ivars, tvars, pvars, cvars>>

\* The iteration in which ParseRule throws.
ParseStatementFail ==
  /\ stage = "source"
  /\ Len(rules) < Len(statements)
  /\ \E parsed \in {ParseRule(statements[Len(rules) + 1])} :
       /\ parsed.error # ""
       /\ error' = parsed.error
  /\ stage' = "error"
  /\ UNCHANGED <<statements, rules_in, rules_prev, rules, ivars, tvars, pvars, cvars>>

DnfStep ==
  /\ stage = "source"
  /\ Len(rules) = Len(statements)
  /\ rules_in' = rules
  /\ rules_prev' = rules
  /\ rules' = DnfRewrite(rules)
  /\ stage' = "dnf"
  /\ UNCHANGED <<statements, error, ivars, tvars, pvars, cvars>>

MultiStepOk ==
  /\ stage = "dnf"
  /\ \E res \in {MultiBodyAggregationRewrite(rules)} :
       /\ res.error = ""
       /\ rules' = res.new_rules
  /\ rules_prev' = rules
  /\ stage' = "multi"
  /\ UNCHANGED <<statements, error, rules_in, ivars, tvars, pvars, cvars>>

MultiStepFail ==
  /\ stage = "dnf"
  /\ \E res \in {MultiBodyAggregationRewrite(rules)} :
       /\ res.error # ""
       /\ error' = res.error
  /\ stage' = "error"
  /\ UNCHANGED <<statements, rules_in, rules_prev, rules, ivars, tvars, pvars, cvars>>

AggregationStep ==
  /\ stage = "multi"
  /\ rules_prev' = rules
  /\ rules' = RewriteAggregationsAsExpressions(rules)
  /\ stage' = "rewritten"
  /\ UNCHANGED <<statements, error, rules_in, ivars, tvars, pvars, cvars>>

NextRewrite ==
  \/ ParseStatementOk
  \/ ParseStatementFail
  \/ DnfStep
  \/ MultiStepOk
  \/ MultiStepFail
  \/ AggregationStep

SpecRewrite == InitRewrite /\ [][NextRewrite]_vars

-----------------------------------------------------------------------------
(* Import strings, paths and prefixes.                                     *)

\* The characters of import strings in the order of their char codes.
CharOrder == " ./@ABCDEFGHIJKLMNOPQRSTUVWXYZ_abcdefghijklmnopqrstuvwxyz"

\* std::string operator<, the order of std::map and std::set of strings.
RECURSIVE StrLess(_, _)
StrLess(a, b) ==
  IF b = "" THEN FALSE
  ELSE IF a = "" THEN TRUE
  ELSE IF CharAt(a, 1) # CharAt(b, 1)
    THEN IndexIn(CharOrder, CharAt(a, 1), 1) < IndexIn(CharOrder, CharAt(b, 1), 1)
  ELSE StrLess(SubSeq(a, 2, Len(a)), SubSeq(b, 2, Len(b)))

\* The elements of a std::set (the keys of a std::map) in iteration order.
RECURSIVE InOrder(_)
InOrder(S) ==
  IF S = {} THEN <<>>
  ELSE <<CHOOSE x \in S : \A y \in S \ {x} : StrLess(x, y)>>
       \o InOrder(S \ {CHOOSE x \in S : \A y \in S \ {x} : StrLess(x, y)})

\* std::string::find from position `from` (1-based); 0 is npos.
RECURSIVE Find(_, _, _)
Find(s, sub, from) ==
  IF from + Len(sub) - 1 > Len(s) THEN 0
  ELSE IF SubSeq(s, from, from + Len(sub) - 1) = sub THEN from
  ELSE Find(s, sub, from + 1)

\* The std::getline loop on separator sep: no part after a trailing sep.
RECURSIVE SplitOn(_, _)
SplitOn(s, sep) ==
  IF s = "" THEN <<>>
  ELSE IF Find(s, sep, 1) = 0 THEN <<s>>
  ELSE <<SubSeq(s, 1, Find(s, sep, 1) - 1)>>
       \o SplitOn(SubSeq(s, Find(s, sep, 1) + 1, Len(s)), sep)

RECURSIVE Join(_, _)
Join(parts, sep) ==
  IF parts = <<>> THEN ""
  ELSE IF Len(parts) = 1 THEN parts[1]
  ELSE parts[1] \o sep \o Join(Tail(parts), sep)

NoSynonym == [null |-> TRUE]

\* SplitImport once import_path and synonym are separated (lines 1712-1726).
SplitPath(parts, synonym) ==
  IF parts = <<>> \/ parts[Len(parts)] = "" \/ ~IsUpper(CharAt(parts[Len(parts)], 1))
    THEN [error |-> "One import per predicate please."]
    ELSE [error |-> "", file |-> Join(SubSeq(parts, 1, Len(parts) - 1), "."),
          predicate_name |-> parts[Len(parts)], synonym |-> synonym]

\* Result: [error] or [error |-> "", file, predicate_name, synonym].
SplitImport(import_str) ==
  IF Find(import_str, " as ", 1) = 0
    THEN SplitPath(SplitOn(import_str, "."), NoSynonym)
  ELSE IF Find(import_str, " as ", Find(import_str, " as ", 1) + 1) # 0
    THEN [error |-> "Too many as"]
  ELSE SplitPath(SplitOn(SubSeq(import_str, 1, Find(import_str, " as ", 1) - 1), "."),
                 StrJ(SubSeq(import_str, Find(import_str, " as ", 1) + 4, Len(import_str))))

\* The path ParseImport looks for under the import roots (lines 2071-2080).
RelPath(file_import_str) == Join(SplitOn(file_import_str, "."), "/") \o ".l"

ToUpper(c) == IF IsLower(c) THEN CharAt(UpperAlpha, IndexIn(LowerAlpha, c, 1)) ELSE c

ToLower(c) == IF IsUpper(c) THEN CharAt(LowerAlpha, IndexIn(UpperAlpha, c, 1)) ELSE c

RECURSIVE LowerAll(_)
LowerAll(x) == IF x = "" THEN "" ELSE ToLower(CharAt(x, 1)) \o LowerAll(SubSeq(x, 2, Len(x)))

\* The lambda `capitalize` of ParseFileInternal.
capitalize(x) ==
  IF x = "" THEN x ELSE ToUpper(CharAt(x, 1)) \o LowerAll(SubSeq(x, 2, Len(x)))

\* The while loop of lines 2196-2202; idx is the 0-based index of the code.
RECURSIVE PrefixLoop(_, _, _, _)
PrefixLoop(parts, idx, prefix, existing) ==
  IF prefix \notin existing THEN [error |-> "", prefix |-> prefix]
  ELSE IF idx - 1 <= 0 THEN [error |-> "Import paths equal modulo _ and /.", prefix |-> prefix]
  ELSE PrefixLoop(parts, idx - 1, parts[idx] \o prefix, existing)

\* The prefix of file this_file_name when the prefixes `existing` are taken.
\* Result: [error, prefix].
PrefixOf(this_file_name, existing) ==
  IF this_file_name = "main" THEN [error |-> "", prefix |-> ""]
  ELSE PrefixLoop(SplitOn(this_file_name, "."), Len(SplitOn(this_file_name, ".")) - 1,
                  capitalize(SplitOn(this_file_name, ".")[Len(SplitOn(this_file_name, "."))])
                    \o "_",
                  existing)

-----------------------------------------------------------------------------
(* Renaming and the end of ParseFileInternal.                              *)

RECURSIVE RenamePredicate(_, _, _)
\* The tree e after RenamePredicate(e, old_name, new_name).
RenamePredicate(e, old_name, new_name) ==
  [k \in DOMAIN e |->
     IF k = "predicate_name" THEN (IF e[k] = old_name THEN new_name ELSE e[k])
     ELSE IF k = "field" THEN (IF e[k] = StrJ(old_name) THEN StrJ(new_name) ELSE e[k])
     ELSE IF k \in ArrayKeys
       THEN [i \in DOMAIN e[k] |-> RenamePredicate(e[k][i], old_name, new_name)]
     ELSE IF IsObjectKey(k) THEN RenamePredicate(e[k], old_name, new_name)
     ELSE e[k]]

RECURSIVE RenameCount(_, _)
\* What member k of object e adds to the count RenamePredicate returns.
RenameCountAt(e, k, old_name) ==
  IF k = "predicate_name" THEN (IF e[k] = old_name THEN 1 ELSE 0)
  ELSE IF k = "field" THEN (IF e[k] = StrJ(old_name) THEN 1 ELSE 0)
  ELSE IF k \in ArrayKeys
    THEN SumSeq([j \in DOMAIN e[k] |-> RenameCount(e[k][j], old_name)])
  ELSE IF IsObjectKey(k) THEN RenameCount(e[k], old_name)
  ELSE 0

\* The count over the members keys of object e.
RECURSIVE RenameCountOver(_, _, _)
RenameCountOver(e, keys, old_name) ==
  IF keys = {} THEN 0
  ELSE RenameCountAt(e, CHOOSE k \in keys : TRUE, old_name)
       + RenameCountOver(e, keys \ {CHOOSE k \in keys : TRUE}, old_name)

\* The count RenamePredicate(e, old_name, _) returns.
RenameCount(e, old_name) == RenameCountOver(e, DOMAIN e, old_name)

\* The loop `for r in rules: RenamePredicate(r, old_name, new_name)`.
RenameInRules(rs, old_name, new_name) ==
  [i \in DOMAIN rs |-> RenamePredicate(rs[i], old_name, new_name)]

DefinedPredicates(rs) == {HeadName(rs[i]) : i \in DOMAIN rs}

MadePredicates(rs) ==
  {rs[i].head.record.field_value[1].value.expression.literal.the_predicate.predicate_name :
     i \in {j \in DOMAIN rs : HeadName(rs[j]) = "@Make"}}

\* def.insert(made) of lines 2140-2142 and 2207-2209.
CreatedPredicates(rs) == DefinedPredicates(rs) \cup MadePredicates(rs)

\* The loop of lines 2210-2218 over the names ps, in the order of the set.
RECURSIVE RenameOwn(_, _, _)
RenameOwn(rs, ps, prefix) ==
  IF ps = <<>> THEN rs
  ELSE IF Head(ps) # "" /\ CharAt(Head(ps), 1) # "@" /\ Head(ps) # "++?"
    THEN RenameOwn(RenameInRules(rs, Head(ps), prefix \o Head(ps)), Tail(ps), prefix)
  ELSE RenameOwn(rs, Tail(ps), prefix)

ImportedAs(ip) == IF ip.synonym = NoSynonym THEN ip.predicate_name ELSE ip.synonym.str

\* The body of the loop of lines 2222-2242 for import record ip, on the
\* rules in acc.
ApplyImport(acc, ip, import_prefix, created) ==
  IF import_prefix = "" THEN [acc EXCEPT !.error = "Empty import prefix"]
  ELSE IF import_prefix \o ip.predicate_name \notin created
          /\ ip.predicate_name \notin created
    THEN [acc EXCEPT !.error = "Predicate imported but not defined."]
  ELSE IF SumSeq([i \in DOMAIN acc.rules |-> RenameCount(acc.rules[i], ImportedAs(ip))]) = 0
    THEN [acc EXCEPT !.error = "Predicate imported but not used."]
  ELSE [acc EXCEPT !.rules = RenameInRules(@, ImportedAs(ip),
                                           import_prefix \o ip.predicate_name)]

\* predicates_created_by_import[file]: operator[] of the map gives the empty
\* set for a file without an entry.
CreatedBy(created, file) == IF file \in DOMAIN created THEN created[file] ELSE {}

\* Result: [error, rules].
RECURSIVE ImportLoop(_, _, _, _)
ImportLoop(acc, ips, imports, created) ==
  IF ips = <<>> \/ acc.error # "" THEN acc
  ELSE ImportLoop(ApplyImport(acc, Head(ips), imports[Head(ips).file].predicates_prefix,
                              CreatedBy(created, Head(ips).file)),
                  Tail(ips), imports, created)

\* The merge loop without the exemption of the names that start with `@`.
RECURSIVE MergeLoopAnyName(_, _, _, _)
MergeLoopAnyName(acc, defined, keys, imports) ==
  IF keys = <<>> THEN acc
  ELSE IF \E q \in DefinedPredicates(imports[Head(keys)].rule) : q \in defined
    THEN [acc EXCEPT !.error = "Predicate from file is overridden by importer."]
  ELSE MergeLoopAnyName([acc EXCEPT !.rules = @ \o imports[Head(keys)].rule],
                        defined \cup DefinedPredicates(imports[Head(keys)].rule),
                        Tail(keys), imports)

\* The loop of lines 2247-2257 over the keys of parsed_imports.
\* Result: [error, rules].
RECURSIVE MergeLoop(_, _, _, _)
MergeLoop(acc, defined, keys, imports) ==
  IF keys = <<>> THEN acc
  ELSE IF \E q \in DefinedPredicates(imports[Head(keys)].rule) :
            q \in defined /\ q # "" /\ CharAt(q, 1) # "@"
    THEN [acc EXCEPT !.error = "Predicate from file is overridden by importer."]
  ELSE MergeLoop([acc EXCEPT !.rules = @ \o imports[Head(keys)].rule],
                 defined \cup DefinedPredicates(imports[Head(keys)].rule),
                 Tail(keys), imports)

\* Lines 2244-2265: the value ParseFileInternal returns.  Result: [error, out].
Assemble(f, prefix, recs, imports) ==
  IF recs.error # "" THEN [error |-> recs.error, out |-> <<>>]
  ELSE IF f.file_name = "main"
            /\ MergeLoop(recs, DefinedPredicates(recs.rules), InOrder(DOMAIN imports),
                         imports).error # ""
    THEN [error |-> "Predicate from file is overridden by importer.", out |-> <<>>]
  ELSE [error |-> "",
        out |-> [rule |-> IF f.file_name = "main"
                            THEN MergeLoop(recs, DefinedPredicates(recs.rules),
                                           InOrder(DOMAIN imports), imports).rules
                            ELSE recs.rules,
                 imported_predicates |-> f.imported_predicates,
                 predicates_prefix |-> prefix,
                 file_name |-> f.file_name]]

\* Lines 2205-2242: the rules renamed by the file's prefix, then by its
\* import records.  Result: [error, rules].
Renamed(f, rs, prefix, imports) ==
  ImportLoop([error |-> "",
              rules |-> IF f.file_name # "main"
                          THEN RenameOwn(rs, InOrder(CreatedPredicates(rs)), prefix)
                          ELSE rs],
             f.imported_predicates, imports, f.created)

\* Lines 2173-2265.
Prefixed(f, rs, px, imports) ==
  IF px.error # "" THEN [error |-> px.error, out |-> <<>>]
  ELSE Assemble(f, px.prefix, Renamed(f, rs, px.prefix, imports), imports)

ExistingPrefixes(imports) == {imports[k].predicates_prefix : k \in DOMAIN imports}

\* Lines 2169-2265.
Rewritten(f, multi, imports) ==
  IF multi.error # "" THEN [error |-> multi.error, out |-> <<>>]
  ELSE Prefixed(f, RewriteAggregationsAsExpressions(multi.new_rules),
                PrefixOf(f.file_name, ExistingPrefixes(imports)), imports)

\* ParseFileInternal from its rewrites on (lines 2167-2265), for the frame f
\* of the call.  Result: [error, out].
FinishFile(f, imports) == Rewritten(f, MultiBodyAggregationRewrite(DnfRewrite(f.rules)), imports)

\* ParseFunctorRule on the statement `new_predicate := definition()`.
ParseFunctorRule(st) ==
  [full_text |-> st.functor \o " := " \o st.definition \o "()",
   head |-> [predicate_name |-> "@Make",
             record |-> [field_value |->
               <<[field |-> IntJ(0),
                  value |-> [expression |->
                     [literal |-> [the_predicate |-> [predicate_name |-> st.functor]],
                      expression_heritage |-> st.functor]]],
                 [field |-> IntJ(1),
                  value |-> [expression |->
                     [literal |-> [the_predicate |-> [predicate_name |-> st.definition]]]]],
                 [field |-> IntJ(2),
                  value |-> [expression |-> [record |-> [field_value |-> <<>>]]]]>>]]]

\* Lines 2148-2164 on a statement that is no import.  Result: [error, rule].
ParseStatement(st) ==
  IF HasKey(st, "functor") THEN [error |-> "", rule |-> ParseFunctorRule(st)]
  ELSE ParseRule(st)

-----------------------------------------------------------------------------
(* Bounded file systems and top-level texts.                               *)

Import(import_str) == [import |-> import_str]

\* The body `R1(x), R2(x), ...` for the names refs.
BodyCalling(refs) ==
  IF refs = <<>> THEN NoBody
  ELSE IF Len(refs) = 1 THEN [p |-> PredicateProp(refs[1]), t |-> refs[1] \o "(x)"]
  ELSE [p |-> Conjunction([i \in DOMAIN refs |-> PredicateProp(refs[i])]),
        t |-> JoinText([i \in DOMAIN refs |->
                          [p |-> PredicateProp(refs[i]), t |-> refs[i] \o "(x)"]], ", ")]

\* The statement `name(x) :- R1(x), ...`.
Rule(name, refs) == RuleSource(name, <<Positional>>, <<"">>, NoDistinct, BodyCalling(refs))

Functor(new_predicate, definition) == [functor |-> new_predicate, definition |-> definition]

LibTexts ==
  {<<Rule("Helper", <<>>)>>,
   <<Rule("Foo", <<>>), Rule("Lib_Foo", <<>>)>>,
   <<Functor("Helper", "F")>>,
   <<Import("a.util.Foo"), Rule("Helper", <<"Foo">>)>>,
   <<Import("lib.Helper"), Rule("Helper", <<>>), Rule("Foo", <<"Helper">>)>>}

UtilTexts ==
  {<<Rule("Foo", <<>>)>>,
   <<Import("lib.Helper"), Rule("Foo", <<"Helper">>)>>,
   <<Import("lib.Helper as Util_Foo"), Rule("Foo", <<>>), Rule("Bar", <<>>)>>}

\* The files under the import root.
FileSystems ==
  {[path \in {"lib.l", "a/util.l", "b/util.l", "x/b/util.l"} |->
      IF path = "lib.l" THEN lib
      ELSE IF path = "a/util.l" THEN util
      ELSE <<Rule("Foo", <<>>)>>] : lib \in LibTexts, util \in UtilTexts}

MaxImports == 2

ImportStrings ==
  {"lib.Helper", "lib.Helper as H", "lib.Helper as Lib_Helper", "lib.Foo",
   "lib.Lib_Helper", "a.util.Foo", "a.util.Bar", "a.util.Foo as Lib_Helper",
   "b.util.Foo as G", "x.b.util.Foo as K", "c.util.Foo", "a/util.Foo as G"}

\* The names under which the import strings bring their predicates.
NamesImported(strs) == [i \in DOMAIN strs |-> ImportedAs(SplitImport(strs[i]))]

\* What a top-level text may hold after its first rule: nothing, a rule whose
\* head is the name an imported Helper of lib gets, or a functor rule.
OwnExtras == {<<>>, <<Rule("Lib_Helper", <<>>)>>, <<Functor("M", "Q")>>}

\* The extras tried with the imports strs: all of them with at most one import.
ExtrasFor(strs) == IF Len(strs) <= 1 THEN OwnExtras ELSE {<<>>}

\* Top-level texts: imports, then a rule that calls what they bring, then
\* the extras.
MainTexts ==
  UNION {{[i \in DOMAIN strs |-> Import(strs[i])] \o <<Rule("Q", NamesImported(strs))>>
            \o extra : extra \in ExtrasFor(strs)}
         : strs \in UNION {[1..n -> ImportStrings] : n \in 0..MaxImports}}

-----------------------------------------------------------------------------
(* ParseFile: the recursion of ParseFileInternal and ParseImport.          *)

\* The locals of a ParseFileInternal call at the start of its statement loop.
Frame(this_file_name, import_chain, text) ==
  [file_name |-> this_file_name,
   import_chain |-> Append(import_chain, this_file_name),
   statements |-> text,
   rules |-> <<>>,
   imported_predicates |-> <<>>,
   created |-> <<>>]

Top == stack[Len(stack)]

Running == outcome.state = "running" /\ stack # <<>>

AtImport == Running /\ Top.statements # <<>> /\ HasKey(Head(Top.statements), "import")

\* Lines 2133-2145: frame f after ParseImport returned `parsed` for split
\* import `imp`.
Imported(f, imp, parsed) ==
  [f EXCEPT !.statements = Tail(@),
            !.imported_predicates =
               Append(@, [file |-> imp.file, predicate_name |-> imp.predicate_name,
                          synonym |-> imp.synonym]),
            !.created = IF imp.file \in DOMAIN @ THEN @
                        ELSE SetKey(@, imp.file, CreatedPredicates(parsed.rule))]

Throw(what) == outcome' = [state |-> "thrown", what |-> what]

\* The message without the chain that leads to the import.
CircularMessageBare(import_chain, file_import_str) ==
  "Circular imports are not allowed: " \o file_import_str

\* "Circular imports are not allowed: " with the chain of lines 2064-2066.
CircularMessage(import_chain, file_import_str) ==
  "Circular imports are not allowed: " \o Join(Append(import_chain, file_import_str), "->")

\* What SplitImport or ParseImport throws for split import `imp` before any
\* file is read, "" if nothing.
ImportError(imp, chain, imports, progress, files) ==
  IF imp.error # "" THEN imp.error
  ELSE IF imp.file \in DOMAIN imports THEN ""
  ELSE IF imp.file \in progress THEN CircularMessage(chain, imp.file)
  ELSE IF RelPath(imp.file) \notin DOMAIN files
    THEN "Imported file not found: " \o RelPath(imp.file)
  ELSE ""

InitImport ==
  /\ content \in MainTexts
  /\ fs \in FileSystems
  /\ stack = <<Frame("main", <<>>, content)>>
  /\ parsed_imports = <<>>
  /\ in_progress = {}
  /\ outcome = [state |-> "running"]
  /\ registered = <<>>
  /\ clock = 0
  /\ statements = <<>>
  /\ stage = "idle"
  /\ error = ""
  /\ rules_in = <<>>
  /\ rules_prev = <<>>
  /\ rules = <<>>
  /\ heritage = <<>>
  /\ separator = <<>>
  /\ traverser = [idx |-> -1, state |-> <<>>, more |-> FALSE]
  /\ steps = <<>>
  /\ returned = <<>>
  /\ TOO_MUCH = "too much"
  /\ parses = <<>>
  /\ record_call = <<>>
  /\ record_result = <<>>

\* An iteration of the statement loop on a statement that is no import.
RuleStatement ==
  /\ Running
  /\ Top.statements # <<>>
  /\ ~HasKey(Head(Top.statements), "import")
  /\ \E parsed \in {ParseStatement(Head(Top.statements))} :
       IF parsed.error # ""
         THEN Throw(parsed.error) /\ UNCHANGED stack
         ELSE /\ stack' = [stack EXCEPT ![Len(stack)] =
                             [@ EXCEPT !.statements = Tail(@),
                                       !.rules = Append(@, parsed.rule)]]
              /\ UNCHANGED outcome
  /\ clock' = clock + 1
  /\ UNCHANGED <<content, fs, parsed_imports, in_progress, registered, rvars, tvars, pvars, cvars>>

\* An import statement on which SplitImport or ParseImport throws.
ImportThrows ==
  /\ AtImport
  /\ \E what \in {ImportError(SplitImport(Head(Top.statements).import), Top.import_chain,
                              parsed_imports, in_progress, fs)} :
       /\ what # ""
       /\ Throw(what)
  /\ clock' = clock + 1
  /\ UNCHANGED <<content, fs, stack, parsed_imports, in_progress, registered, rvars, tvars, pvars, cvars>>

\* An import statement whose file ParseImport finds in parsed_imports.
ImportCached ==
  /\ AtImport
  /\ \E imp \in {SplitImport(Head(Top.statements).import)} :
       /\ imp.error = ""
       /\ imp.file \in DOMAIN parsed_imports
       /\ stack' = [stack EXCEPT ![Len(stack)] = Imported(@, imp, parsed_imports[imp.file])]
  /\ clock' = clock + 1
  /\ UNCHANGED <<content, fs, parsed_imports, in_progress, outcome, registered, rvars, tvars, pvars, cvars>>

\* ParseImport without the look into parsed_imports: the file is read and
\* parsed whether it is cached or not.
ImportEntersCached ==
  /\ AtImport
  /\ \E imp \in {SplitImport(Head(Top.statements).import)} :
       /\ imp.error = ""
       /\ imp.file \notin in_progress
       /\ RelPath(imp.file) \in DOMAIN fs
       /\ in_progress' = in_progress \cup {imp.file}
       /\ stack' = Append(stack, Frame(imp.file, Top.import_chain, fs[RelPath(imp.file)]))
  /\ clock' = clock + 1
  /\ UNCHANGED <<content, fs, parsed_imports, outcome, registered, rvars, tvars, pvars, cvars>>

\* An import statement for which ParseImport reads the file and calls
\* ParseFileInternal.
ImportEnters ==
  /\ AtImport
  /\ \E imp \in {SplitImport(Head(Top.statements).import)} :
       /\ ImportError(imp, Top.import_chain, parsed_imports, in_progress, fs) = ""
       /\ imp.file \notin DOMAIN parsed_imports
       /\ in_progress' = in_progress \cup {imp.file}
       /\ stack' = Append(stack, Frame(imp.file, Top.import_chain, fs[RelPath(imp.file)]))
  /\ clock' = clock + 1
  /\ UNCHANGED <<content, fs, parsed_imports, outcome, registered, rvars, tvars, pvars, cvars>>

\* The statement loop of a call is over and something after it throws.
FileThrows ==
  /\ Running
  /\ Top.statements = <<>>
  /\ \E done \in {FinishFile(Top, parsed_imports)} :
       /\ done.error # ""
       /\ Throw(done.error)
  /\ clock' = clock + 1
  /\ UNCHANGED <<content, fs, stack, parsed_imports, in_progress, registered, rvars, tvars, pvars, cvars>>

\* ParseImport without the in_progress.erase of line 2104.
ImportReturnsInProgress ==
  /\ Running
  /\ Len(stack) > 1
  /\ Top.statements = <<>>
  /\ \E done \in {FinishFile(Top, parsed_imports)} :
       /\ done.error = ""
       /\ parsed_imports' = SetKey(parsed_imports, Top.file_name, done.out)
       /\ stack' = [SubSeq(stack, 1, Len(stack) - 1) EXCEPT ![Len(stack) - 1] =
                      Imported(@, SplitImport(Head(@.statements).import), done.out)]
  /\ registered' = Append(registered, Top.file_name)
  /\ clock' = clock + 1
  /\ UNCHANGED <<content, fs, in_progress, outcome, rvars, tvars, pvars, cvars>>

\* An imported file's ParseFileInternal returns to ParseImport, which stores
\* the result and returns to the import statement of the importer.
ImportReturns ==
  /\ Running
  /\ Len(stack) > 1
  /\ Top.statements = <<>>
  /\ \E done \in {FinishFile(Top, parsed_imports)} :
       /\ done.error = ""
       /\ parsed_imports' = SetKey(parsed_imports, Top.file_name, done.out)
       /\ stack' = [SubSeq(stack, 1, Len(stack) - 1) EXCEPT ![Len(stack) - 1] =
                      Imported(@, SplitImport(Head(@.statements).import), done.out)]
  /\ in_progress' = in_progress \ {Top.file_name}
  /\ registered' = Append(registered, Top.file_name)
  /\ clock' = clock + 1
  /\ UNCHANGED <<content, fs, outcome, rvars, tvars, pvars, cvars>>

\* The top-level ParseFileInternal returns: ParseFile returns.
ParseFileReturns ==
  /\ Running
  /\ Len(stack) = 1
  /\ Top.statements = <<>>
  /\ \E done \in {FinishFile(Top, parsed_imports)} :
       /\ done.error = ""
       /\ outcome' = [state |-> "returned", value |-> done.out]
  /\ stack' = <<>>
  /\ clock' = clock + 1
  /\ UNCHANGED <<content, fs, parsed_imports, in_progress, registered, rvars, tvars, pvars, cvars>>

NextImport ==
  \/ RuleStatement
  \/ ImportThrows
  \/ ImportCached
  \/ ImportEnters
  \/ FileThrows
  \/ ImportReturns
  \/ ParseFileReturns

SpecImport == InitImport /\ [][NextImport]_vars

\* A step of ParseFile: each of its steps advances the clock, and nothing
\* else does.
Tick == Running /\ clock' = clock + 1

\* ParseFile runs on: a call that has neither returned nor thrown takes its
\* next step.
SpecImportFair == SpecImport /\ WF_clock(Tick)

-----------------------------------------------------------------------------
(* Spans and the Traverser (logica_parse.cpp 172-539).                      *)
(*                                                                          *)
(* A text is a sequence of characters, each a one-character string; the     *)
(* backtick is written "bt".  A span is [start, stop) over a heritage, both  *)
(* counted from 0 as in the source.  The Traverser's state is the sequence   *)
(* of the symbols it has pushed; "3" is the symbol of a triple-quoted       *)
(* string and "x01" the sentinel '\x01'.                                    *)

\* SpanString(h, s, e), lines 181-185: stop is clamped to the heritage, start
\* to stop.
SpanString(h, s, e) ==
  [start |-> IF s > (IF e > Len(h) THEN Len(h) ELSE e)
             THEN (IF e > Len(h) THEN Len(h) ELSE e) ELSE s,
   stop |-> IF e > Len(h) THEN Len(h) ELSE e]

size(s) == s.stop - s.start

view(h, s) == SubSeq(h, s.start + 1, s.stop)

slice(h, s, rel_start, rel_stop) == SpanString(h, s.start + rel_start, s.start + rel_stop)

kCloseToOpen == [c \in {")", "}", "]"} |-> CASE c = ")" -> "(" [] c = "}" -> "{" [] OTHER -> "["]

\* Traverser::State(): the top of the stack, "nul" for '\0'.
State(state) == IF state = <<>> THEN "nul" ELSE state[Len(state)]

pop_back(state) == SubSeq(state, 1, Len(state) - 1)

\* sub2 and sub3 of Traverser::Next: the n characters at index i (from 0), or
\* nothing when fewer remain.
sub(v, i, n) == IF i + n > Len(v) THEN <<>> ELSE SubSeq(v, i + 1, i + n)

\* What one call of Traverser::Next leaves: whether it returned true, the
\* traverser's idx and state after it, and the step written to `out`.
Yield(idx, state, out_state, status) ==
  [more |-> TRUE, idx |-> idx, state |-> state,
   out |-> [idx |-> idx, state |-> out_state, status |-> status]]

\* Lines 407-424 with track_parenthesis true.
TrackParenthesis(idx, c, state) ==
  IF c \in {"(", "{", "["} THEN Yield(idx, Append(state, c), Append(state, c), "OK")
  ELSE IF c \in DOMAIN kCloseToOpen
    THEN IF State(state) = kCloseToOpen[c]
           THEN Yield(idx, pop_back(state), pop_back(state), "OK")
           ELSE Yield(idx, state, <<>>, "Unmatched")
    ELSE Yield(idx, state, state, "OK")

RECURSIVE Next(_, _, _)
RECURSIVE NextAt(_, _, _, _, _)

\* Traverser::Next, lines 303-424, once idx has been advanced to a character
\* c of the view, in state st.
NextAt(v, idx, c, st, state) ==
  CASE st = "#" ->
         IF c = "\n" THEN Yield(idx, pop_back(state), pop_back(state), "OK")
         ELSE Next(v, idx, state)
    [] st = "\"" ->
         IF c = "\n" THEN Yield(idx, state, <<>>, "EolInString")
         ELSE IF c = "\"" THEN Yield(idx, pop_back(state), pop_back(state), "OK")
         ELSE Yield(idx, state, state, "OK")
    [] st = "'" ->
         IF c = "'" THEN Yield(idx, pop_back(state), pop_back(state), "OK")
         ELSE IF c = "\\" THEN Yield(idx, Append(state, "\\"), Append(state, "\\"), "OK")
         ELSE Yield(idx, state, state, "OK")
    [] st = "\\" -> TrackParenthesis(idx, c, pop_back(state))
    [] st = "bt" ->
         IF c = "bt" THEN Yield(idx, pop_back(state), pop_back(state), "OK")
         ELSE Yield(idx, state, state, "OK")
    [] st = "3" ->
         IF sub(v, idx, 3) = <<"\"", "\"", "\"">>
           THEN Yield(idx, pop_back(state) \o <<"x01", "x01">>, pop_back(state), "OK")
           ELSE Yield(idx, state, state, "OK")
    [] st = "/" ->
         IF sub(v, idx, 2) = <<"*", "/">> THEN Next(v, idx + 1, pop_back(state))
         ELSE Next(v, idx, state)
    [] st = "x01" -> Yield(idx, pop_back(state), pop_back(state), "OK")
    [] OTHER ->
         IF c = "#" THEN Next(v, idx, Append(state, "#"))
         ELSE IF sub(v, idx, 3) = <<"\"", "\"", "\"">>
           THEN Yield(idx, state \o <<"3", "x01", "x01">>, Append(state, "3"), "OK")
         ELSE IF c \in {"\"", "'", "bt"} THEN TrackParenthesis(idx, c, Append(state, c))
         ELSE IF sub(v, idx, 2) = <<"/", "*">> THEN Next(v, idx + 1, Append(state, "/"))
         ELSE TrackParenthesis(idx, c, state)

\* Traverser::Next, lines 299-304: false at the end of the view.
Next(v, idx, state) ==
  IF idx + 1 >= Len(v)
    THEN [more |-> FALSE, idx |-> idx, state |-> state]
    ELSE NextAt(v, idx + 1, v[idx + 2], State(state), state)

RECURSIVE StepsFrom(_, _, _)

StepsAfter(v, r) == IF r.more THEN <<r.out>> \o StepsFrom(v, r.idx, r.state) ELSE <<>>

\* `while (t.Next(step))` from a traverser at idx in state: the steps handed
\* out, in order.
StepsFrom(v, idx, state) == StepsAfter(v, Next(v, idx, state))

\* The steps of a fresh Traverser over v.
Steps(v) == StepsFrom(v, -1, <<>>)

RECURSIVE RemoveCommentsLoop(_, _, _)
RemoveCommentsLoop(v, ss, chars) ==
  IF ss = <<>> THEN [state |-> "returned", value |-> chars]
  ELSE IF Head(ss).status = "Unmatched"
    THEN [state |-> "thrown", what |-> "Parenthesis matches nothing."]
  ELSE IF Head(ss).status = "EolInString"
    THEN [state |-> "thrown", what |-> "End of line in string."]
  ELSE RemoveCommentsLoop(v, Tail(ss), Append(chars, v[Head(ss).idx + 1]))

RemoveComments(v) == RemoveCommentsLoop(v, Steps(v), <<>>)

\* IsWhole, lines 445-455: status and state of the last step handed out.
IsWholeOfSteps(ss) ==
  IF ss = <<>> THEN TRUE
  ELSE ss[Len(ss)].status = "OK" /\ ss[Len(ss)].state = <<>>

IsWhole(v) == IsWholeOfSteps(Steps(v))

isspace(c) == c \in {" ", "\n", "\t"}

isalnum(c) == c \in {"a", "b", "1"}

RECURSIVE SkipLeft(_, _)
SkipLeft(v, left) ==
  IF left < Len(v) /\ isspace(v[left + 1]) THEN SkipLeft(v, left + 1) ELSE left

RECURSIVE SkipRight(_, _, _)
SkipRight(v, left, right) ==
  IF right > left /\ isspace(v[right + 1]) THEN SkipRight(v, left, right - 1) ELSE right

StripSpaces(h, s) ==
  IF view(h, s) = <<>> THEN slice(h, s, 0, 0)
  ELSE slice(h, s, SkipLeft(view(h, s), 0),
             SkipRight(view(h, s), SkipLeft(view(h, s), 0), size(s) - 1) + 1)

RECURSIVE Strip(_, _)

StripPeel(h, s) ==
  IF /\ size(s) >= 2
     /\ h[s.start + 1] = "("
     /\ h[s.stop] = ")"
     /\ IsWhole(view(h, slice(h, s, 1, size(s) - 1)))
    THEN Strip(h, slice(h, s, 1, size(s) - 1))
    ELSE s

Strip(h, s) == StripPeel(h, StripSpaces(h, s))

RECURSIVE SkipSteps(_, _, _, _)
\* Lines 523-525: up to k further calls of Next, stopping when one returns
\* false.
SkipSteps(v, idx, state, k) ==
  IF k = 0 \/ ~Next(v, idx, state).more THEN [idx |-> idx, state |-> state]
  ELSE SkipSteps(v, Next(v, idx, state).idx, Next(v, idx, state).state, k - 1)

\* Lines 500-518: the separator stands at index i of the view and is neither
\* half of a `||` nor part of a word.
SeparatorAt(v, sep, i) ==
  /\ sub(v, i, Len(sep)) = sep
  /\ ~(sep = <<"|">> /\ i + 1 < Len(v) /\ v[i + 2] = "|")
  /\ ~(sep = <<"|">> /\ i > 0 /\ v[i] = "|")
  /\ (\A k \in DOMAIN sep : isalnum(sep[k]))
       => /\ ~(i > 0 /\ isalnum(v[i]))
          /\ ~(i + Len(sep) < Len(v) /\ isalnum(v[i + Len(sep) + 1]))

RECURSIVE SplitRawLoop(_, _, _, _, _, _)

SplitRawStep(h, s, sep, r, part_start, parts) ==
  IF ~r.more
    THEN [state |-> "returned", value |-> Append(parts, slice(h, s, part_start, size(s)))]
  ELSE IF r.out.status # "OK"
    THEN [state |-> "thrown", what |-> "Parenthesis matches nothing."]
  ELSE IF r.out.state = <<>> /\ SeparatorAt(view(h, s), sep, r.out.idx)
    THEN SplitRawLoop(h, s, sep,
                      SkipSteps(view(h, s), r.idx, r.state, Len(sep) - 1),
                      r.out.idx + Len(sep),
                      Append(parts, slice(h, s, part_start, r.out.idx)))
  ELSE SplitRawLoop(h, s, sep, [idx |-> r.idx, state |-> r.state], part_start, parts)

\* The loop of SplitRaw, lines 494-528, with the traverser t.
SplitRawLoop(h, s, sep, t, part_start, parts) ==
  SplitRawStep(h, s, sep, Next(view(h, s), t.idx, t.state), part_start, parts)

SplitRaw(h, s, sep) ==
  IF Len(sep) = 0 THEN [state |-> "returned", value |-> <<s>>]
  ELSE SplitRawLoop(h, s, sep, [idx |-> -1, state |-> <<>>], 0, <<>>)

SplitOfRaw(h, raw) ==
  IF raw.state = "thrown" THEN raw
  ELSE [state |-> "returned", value |-> [i \in DOMAIN raw.value |-> Strip(h, raw.value[i])]]

Split(h, s, sep) == SplitOfRaw(h, SplitRaw(h, s, sep))

-----------------------------------------------------------------------------
(* The texts the functions are run on.                                     *)

MaxPieces == 3

MaxSpanPieces == 4

\* Lexical pieces: a letter, whitespace, brackets, the quotes, a backslash
\* and the comment delimiters.
Pieces ==
  {<<"a">>, <<" ">>, <<"(">>, <<")">>, <<"'">>, <<"\\">>, <<"\"">>, <<"\n">>,
   <<"#">>, <<"/", "*">>, <<"*", "/">>, <<"\"", "\"", "\"">>, <<"bt">>, <<"|">>}

\* Pieces of bracketed, separated text, with a screened bracket in a string.
SpanPieces ==
  {<<"a">>, <<" ">>, <<"(">>, <<")">>, <<"|">>,
   <<"'", "\\", "(", "'">>, <<"'", "\\", ")", "'">>}

TextsOver(pieces, n) == UNION {{Flatten(ps) : ps \in [1..k -> pieces]} : k \in 0..n}

Texts == TextsOver(Pieces, MaxPieces) \cup TextsOver(SpanPieces, MaxSpanPieces)

Separators == {<<"|">>, <<"|", "|">>, <<"a">>}

Whole(h) == SpanString(h, 0, Len(h))

-----------------------------------------------------------------------------
(* A text is traversed step by step, then IsWhole, RemoveComments, Strip   *)
(* and Split are called on it.                                             *)

InitTraverse ==
  /\ heritage \in Texts
  /\ separator = <<>>
  /\ traverser = [idx |-> -1, state |-> <<>>, more |-> TRUE]
  /\ steps = <<>>
  /\ returned = <<>>
  /\ TOO_MUCH = "too much"
  /\ parses = <<>>
  /\ record_call = <<>>
  /\ record_result = <<>>
  /\ statements = <<>>
  /\ stage = "idle"
  /\ error = ""
  /\ rules_in = <<>>
  /\ rules_prev = <<>>
  /\ rules = <<>>
  /\ content = <<>>
  /\ fs = <<>>
  /\ stack = <<>>
  /\ parsed_imports = <<>>
  /\ in_progress = {}
  /\ outcome = [state |-> "idle"]
  /\ registered = <<>>
  /\ clock = 0

\* A call of Traverser::Next that returns true.
TraverserNext ==
  /\ traverser.more
  /\ Next(heritage, traverser.idx, traverser.state).more
  /\ \E r \in {Next(heritage, traverser.idx, traverser.state)} :
       /\ traverser' = [idx |-> r.idx, state |-> r.state, more |-> TRUE]
       /\ steps' = Append(steps, r.out)
  /\ UNCHANGED <<heritage, separator, returned, rvars, ivars, pvars, cvars>>

\* The call of Traverser::Next that returns false, after the comment
\* characters it has consumed on the way to the end.
TraverserEnds ==
  /\ traverser.more
  /\ ~Next(heritage, traverser.idx, traverser.state).more
  /\ \E r \in {Next(heritage, traverser.idx, traverser.state)} :
       traverser' = [idx |-> r.idx, state |-> r.state, more |-> FALSE]
  /\ UNCHANGED <<heritage, separator, steps, returned, rvars, ivars, pvars, cvars>>

CallIsWhole ==
  /\ ~traverser.more
  /\ heritage \in Texts
  /\ ~HasKey(returned, "IsWhole")
  /\ returned' = SetKey(returned, "IsWhole", IsWhole(heritage))
  /\ UNCHANGED <<heritage, separator, traverser, steps, rvars, ivars, pvars, cvars>>

CallRemoveComments ==
  /\ HasKey(returned, "IsWhole")
  /\ ~HasKey(returned, "RemoveComments")
  /\ returned' = SetKey(returned, "RemoveComments", RemoveComments(heritage))
  /\ UNCHANGED <<heritage, separator, traverser, steps, rvars, ivars, pvars, cvars>>

CallStrip ==
  /\ HasKey(returned, "RemoveComments")
  /\ ~HasKey(returned, "Strip")
  /\ returned' = SetKey(returned, "Strip", Strip(heritage, Whole(heritage)))
  /\ UNCHANGED <<heritage, separator, traverser, steps, rvars, ivars, pvars, cvars>>

\* Split, which calls SplitRaw and strips its parts.
CallSplit ==
  /\ HasKey(returned, "Strip")
  /\ ~HasKey(returned, "Split")
  /\ \E sep \in Separators :
       /\ separator' = sep
       /\ returned' = SetKey(SetKey(returned, "SplitRaw", SplitRaw(heritage, Whole(heritage), sep)),
                             "Split", Split(heritage, Whole(heritage), sep))
  /\ UNCHANGED <<heritage, traverser, steps, rvars, ivars, pvars, cvars>>

NextTraverse ==
  \/ TraverserNext
  \/ TraverserEnds
  \/ CallIsWhole
  \/ CallRemoveComments
  \/ CallStrip
  \/ CallSplit

SpecTraverse == InitTraverse /\ [][NextTraverse]_vars


-----------------------------------------------------------------------------
(* ParseInfix and the expressions around it (logica_parse.cpp 584-590,      *)
(* 622-650, 880-978, 1041-1104, 1468-1515), on texts of digits, lower-case  *)
(* letters, spaces and operator characters.                                 *)

\* The characters of a string, and the string of a sequence of characters.
Chars(str) == [i \in 1..Len(str) |-> SubSeq(str, i, i)]

RECURSIVE Str(_)
Str(chars) == IF chars = <<>> THEN "" ELSE chars[1] \o Str(Tail(chars))

\* EnactIncantations: the value of the global TOO_MUCH after the call.
EnactIncantations(incantation, too_much) == IF incantation THEN "fun" ELSE too_much

isdigit(c) == c \in {"0", "1", "2", "3", "4", "5", "6", "7", "8", "9"}

\* ParseNumber matches: strtod consumes the whole text, which is optional
\* white space, an optional sign and digits.
Unsigned(v) == IF v # <<>> /\ v[1] \in {"+", "-"} THEN Tail(v) ELSE v

ParseNumber(v) ==
  /\ Unsigned(SubSeq(v, SkipLeft(v, 0) + 1, Len(v))) # <<>>
  /\ \A c \in Range(Unsigned(SubSeq(v, SkipLeft(v, 0) + 1, Len(v)))) : isdigit(c)

\* ParseVariable matches.
ParseVariable(v) ==
  /\ v # <<>>
  /\ IsLower(v[1]) \/ v[1] = "_"
  /\ \A c \in Range(v) : IsLower(c) \/ isdigit(c) \/ c = "_"

user_defined(too_much) ==
  IF too_much = "fun" THEN <<"---", "-+-", "-*-", "-/-", "-%-", "-^-">> ELSE <<>>

base ==
  <<"||", "&&", "->", "==", "<=", ">=", "<", ">", "!=", "=", "~", " in ", " is not ",
    " is ", "++?", "++", "+", "-", "*", "/", "%", "^", "!">>

unary == {"-", "!"}

\* The operator without the spaces around it.
pred(op) == Str(view(Chars(op), StripSpaces(Chars(op), Whole(Chars(op)))))

InfixCall(op, left_expr, right_expr) ==
  IF left_expr.error # "" THEN [error |-> left_expr.error]
  ELSE IF right_expr.error # "" THEN [error |-> right_expr.error]
  ELSE [error |-> "", found |-> TRUE,
        value |-> [predicate_name |-> pred(op),
                   record |-> [field_value |->
                     <<[field |-> StrJ("left"), value |-> [expression |-> left_expr.value]],
                       [field |-> StrJ("right"), value |-> [expression |-> right_expr.value]]>>]]]

UnaryCall(op, record) ==
  IF record.error # "" THEN [error |-> record.error]
  ELSE [error |-> "", found |-> TRUE,
        value |-> [predicate_name |-> op, record |-> [field_value |-> record.value]]]

\* ParseExpression: ActuallyParseExpression with the text of the span as
\* expression_heritage.
WithHeritage(h, s, e) ==
  IF e.error # "" THEN e
  ELSE [error |-> "", value |-> SetKey(e.value, "expression_heritage", Str(view(h, s)))]

RECURSIVE ActuallyParseExpression(_, _, _)
RECURSIVE PositionalEntries(_, _, _, _)

PositionalEntry(idx, e, rest) ==
  IF e.error # "" THEN e
  ELSE IF rest.error # "" THEN rest
  ELSE [error |-> "",
        value |-> <<[field |-> IntJ(idx - 1), value |-> [expression |-> e.value]]>>
                  \o rest.value]

\* The loop of ParseRecordInternals over entries that are all positional.
PositionalEntries(h, fields, idx, too_much) ==
  IF idx > Len(fields) THEN [error |-> "", value |-> <<>>]
  ELSE PositionalEntry(idx,
                       WithHeritage(h, fields[idx],
                                    ActuallyParseExpression(h, fields[idx], too_much)),
                       PositionalEntries(h, fields, idx + 1, too_much))

\* ParseRecordInternals(s, false, false) on the stripped span s, for a text
\* whose entries are positional.
PositionalRecord(h, s, too_much) ==
  IF size(s) = 0 \/ ~IsWhole(view(h, s)) THEN [error |-> "", value |-> <<>>]
  ELSE IF Split(h, s, <<",">>).state = "thrown" THEN [error |-> Split(h, s, <<",">>).what]
  ELSE PositionalEntries(h, Split(h, s, <<",">>).value, 1, too_much)

\* ParseInfix once op has split the span in two or more parts: left and
\* right are the operands, not yet stripped.
InfixOperands(h, op, left, right, too_much) ==
  IF op \in unary /\ size(Strip(h, left)) = 0
    THEN UnaryCall(op, PositionalRecord(h, Strip(h, right), too_much))
  ELSE IF op = "~" /\ size(Strip(h, left)) = 0 THEN [error |-> "", found |-> FALSE]
  ELSE InfixCall(op,
                 WithHeritage(h, Strip(h, left),
                              ActuallyParseExpression(h, Strip(h, left), too_much)),
                 WithHeritage(h, Strip(h, right),
                              ActuallyParseExpression(h, Strip(h, right), too_much)))

\* The loop of ParseInfix goes past operator op: it is disallowed, it does
\* not split the span, or it is the `~` of a `!~`.
InfixSkips(h, s, op, disallow, raw) ==
  \/ op \in disallow
  \/ /\ raw.state = "returned"
     /\ \/ Len(raw.value) <= 1
        \/ /\ op = "~"
           /\ raw.value[Len(raw.value) - 1].stop > s.start
           /\ h[raw.value[Len(raw.value) - 1].stop] = "!"

\* The operators at which the loop of ParseInfix would not go on.
InfixStops(h, s, ops, disallow) ==
  {k \in DOMAIN ops : ~InfixSkips(h, s, ops[k], disallow, SplitRaw(h, s, Chars(ops[k])))}

\* The body of the loop, were the span split at the first occurrence of op:
\* a chain would lean to the right.
InfixAtFirstOccurrence(h, s, too_much, op, raw) ==
  IF raw.state = "thrown" THEN [error |-> raw.what]
  ELSE InfixOperands(h, op,
                     SpanString(h, s.start, raw.value[1].stop),
                     SpanString(h, raw.value[2].start, s.stop),
                     too_much)

\* The body of the loop of ParseInfix for the operator op at which it stops,
\* whose SplitRaw gave raw.
InfixAt(h, s, too_much, op, raw) ==
  IF raw.state = "thrown" THEN [error |-> raw.what]
  ELSE InfixOperands(h, op,
                     SpanString(h, s.start, raw.value[Len(raw.value) - 1].stop),
                     SpanString(h, raw.value[Len(raw.value)].start, s.stop),
                     too_much)

InfixFirst(h, s, too_much, ops, stops) ==
  IF stops = {} THEN [error |-> "", found |-> FALSE]
  ELSE \* the first operator in table order at which the loop stops
       InfixAt(h, s, too_much, ops[CHOOSE k \in stops : \A j \in stops : k <= j],
               SplitRaw(h, s, Chars(ops[CHOOSE k \in stops : \A j \in stops : k <= j])))

\* ParseInfix without an operator list: the table, the user-defined operators
\* first when TOO_MUCH is "fun".  [error], or [found] with the call in value.
ParseInfix(h, s, too_much, disallow) ==
  InfixFirst(h, s, too_much, user_defined(too_much) \o base,
             InfixStops(h, s, user_defined(too_much) \o base, disallow))

InfixExpression(infix) ==
  IF infix.error # "" THEN infix
  ELSE IF infix.found THEN [error |-> "", value |-> [call |-> infix.value]]
  ELSE [error |-> "Could not parse expression of a value."]

\* The characters ParseGenericCall accepts in a predicate name.
good_chars(c, too_much) ==
  \/ IsLower(c) \/ IsUpper(c) \/ isdigit(c)
  \/ c \in {"@", "_", ".", "$", "{", "}", "+", "-", "bt"}
  \/ too_much = "fun" /\ c \in {"*", "^", "%", "/"}

\* The step at which the loop of ParseGenericCall stops: a bad status, the
\* stack holding the opening bracket alone, or a stack that is neither
\* empty, nor `{`, nor based on a backtick.
GenericCallStops(step, opening) ==
  \/ step.status # "OK"
  \/ step.state = <<opening>>
  \/ step.state # <<>> /\ step.state # <<"{">> /\ step.state[1] # "bt"

\* ParseGenericCall once the loop has stopped at the opening bracket, at
\* index idx of the view v of the stripped span s.
GenericCallAt(h, s, v, idx, too_much, opening, closing) ==
  IF /\ \/ idx > 0 /\ \A k \in 1..idx : good_chars(v[k], too_much)
        \/ sub(v, 0, idx) = <<"!">>
        \/ sub(v, 0, idx) = <<"+", "+", "?">>
        \/ idx >= 2 /\ v[1] = "bt" /\ v[idx] = "bt"
     /\ v[idx + 1] = opening
     /\ v[Len(v)] = closing
     /\ IsWhole(view(h, slice(h, s, idx + 1, size(s) - 1)))
    THEN [error |-> "", found |-> TRUE, predicate |-> Str(sub(v, 0, idx)),
          record |-> slice(h, s, idx + 1, size(s) - 1)]
    ELSE [error |-> "", found |-> FALSE]

\* The first step at which the loop of ParseGenericCall stops.
GenericCallFirstStop(ss, opening) ==
  ss[CHOOSE k \in DOMAIN ss :
       /\ GenericCallStops(ss[k], opening)
       /\ \A j \in 1..(k - 1) : ~GenericCallStops(ss[j], opening)]

\* ParseGenericCall at the step where its loop stops.
GenericCallStep(h, s, step, too_much, opening, closing) ==
  IF step.status # "OK" THEN [error |-> "Parenthesis matches nothing."]
  ELSE IF step.state = <<opening>>
    THEN GenericCallAt(h, s, view(h, s), step.idx, too_much, opening, closing)
  ELSE [error |-> "", found |-> FALSE]

\* ParseGenericCall on the stripped span s, whose Traverser hands out the
\* steps ss, for a span that does not start with `->`.
GenericCallOfSteps(h, s, ss, too_much, opening, closing) ==
  IF \A k \in DOMAIN ss : ~GenericCallStops(ss[k], opening)
    THEN [error |-> "", found |-> FALSE]
  ELSE GenericCallStep(h, s, GenericCallFirstStop(ss, opening), too_much, opening, closing)

ParseGenericCall(h, in, too_much, opening, closing) ==
  IF size(Strip(h, in)) = 0 THEN [error |-> "", found |-> FALSE]
  ELSE GenericCallOfSteps(h, Strip(h, in), Steps(view(h, Strip(h, in))), too_much,
                          opening, closing)

\* ParseCall once ParseGenericCall has returned generic.
CallOfGeneric(h, generic, too_much) ==
  IF generic.error # "" \/ ~generic.found THEN generic
  ELSE UnaryCall(generic.predicate,
                 PositionalRecord(h, Strip(h, generic.record), too_much))

\* ParseCall(s, false) on a span whose arguments are positional.
ParseCallOfSpan(h, s, too_much) ==
  CallOfGeneric(h, ParseGenericCall(h, s, too_much, "(", ")"), too_much)

RECURSIVE ParseProposition(_, _, _)

\* One turn of the loop of ParseNegation: the conjunct c before the
\* conjuncts rest.
NegatedConjunct(c, rest) ==
  IF c.error # "" THEN c
  ELSE IF rest.error # "" THEN rest
  ELSE [error |-> "", value |-> <<c.value>> \o rest.value]

\* The loop of ParseNegation over the conjuncts of the negated text.
RECURSIVE NegatedConjunctsOfSpan(_, _, _, _)
NegatedConjunctsOfSpan(h, conj_parts, idx, too_much) ==
  IF idx > Len(conj_parts) THEN [error |-> "", value |-> <<>>]
  ELSE NegatedConjunct(ParseProposition(h, conj_parts[idx], too_much),
                       NegatedConjunctsOfSpan(h, conj_parts, idx + 1, too_much))

\* ParseNegation once the conjuncts of the negated text are parsed.
NegationOfConjuncts(h, s, conjuncts) ==
  IF conjuncts.error # "" THEN conjuncts
  ELSE [error |-> "", found |-> TRUE,
        value |-> ParseNegation(Str(view(h, s)), conjuncts.value)]

\* ParseNegation once the negated text is split at its commas.
NegationOfConjunctParts(h, s, conj_parts, too_much) ==
  IF conj_parts.state = "thrown" THEN [error |-> conj_parts.what]
  ELSE NegationOfConjuncts(h, s, NegatedConjunctsOfSpan(h, conj_parts.value, 1, too_much))

\* ParseNegation once the span is split at `~`.
NegationOfParts(h, s, parts, too_much) ==
  IF parts.state = "thrown" THEN [error |-> parts.what]
  ELSE IF Len(parts.value) = 1 THEN [error |-> "", found |-> FALSE]
  ELSE IF Len(parts.value) # 2 \/ size(parts.value[1]) # 0
    THEN [error |-> "Negation \"~\" is a unary operator."]
  ELSE NegationOfConjunctParts(h, s, Split(h, Strip(h, parts.value[2]), <<",">>),
                               too_much)

\* ParseNegation on the span s.
ParseNegationOfSpan(h, s, too_much) ==
  NegationOfParts(h, s, Split(h, s, <<"~">>), too_much)

ParseNegationExpression(proposition) ==
  IF proposition.error # "" \/ ~proposition.found THEN proposition
  ELSE [error |-> "", found |-> TRUE, value |-> [call |-> proposition.value.predicate]]

\* ActuallyParseExpression from the negation on (1499-1508).
ExpressionOfNegation(negation) ==
  IF negation.error # "" THEN negation
  ELSE IF negation.found THEN [error |-> "", value |-> negation.value]
  ELSE [error |-> "Could not parse expression of a value."]

\* ActuallyParseExpression from the infix expression on (1496-1508).
ExpressionOfInfix(h, s, too_much, infix) ==
  IF infix.error # "" \/ infix.found THEN InfixExpression(infix)
  ELSE ExpressionOfNegation(ParseNegationExpression(ParseNegationOfSpan(h, s, too_much)))

\* ActuallyParseExpression from the call on (1493-1508).
ExpressionOfCall(h, s, too_much, call) ==
  IF call.error # "" THEN call
  ELSE IF call.found THEN [error |-> "", value |-> [call |-> call.value]]
  ELSE ExpressionOfInfix(h, s, too_much, ParseInfix(h, s, too_much, {"~"}))

\* ActuallyParseExpression on a text of numbers, variables, operators and
\* parentheses: the productions that can match are the number, the
\* variable, the call, the infix expression and the negation; the others
\* look for text that is not there.  [error], with the expression in value
\* when "".
ActuallyParseExpression(h, s, too_much) ==
  IF ParseNumber(view(h, s))
    THEN [error |-> "",
          value |-> [literal |-> [the_number |-> [number |-> Str(view(h, s))]]]]
  ELSE IF ParseVariable(view(h, s))
    THEN IF sub(view(h, s), 0, 2) = <<"x", "_">>
           THEN [error |-> "Variables starting with x_ are reserved to be Logica compiler internal. Please use a different name."]
           ELSE [error |-> "", value |-> [variable |-> [var_name |-> StrJ(Str(view(h, s)))]]]
  ELSE ExpressionOfCall(h, s, too_much, ParseCallOfSpan(h, s, too_much))

\* ParseProposition from the negation on (1462-1465).
PropositionOfNegation(negation) ==
  IF negation.error # "" THEN negation
  ELSE IF negation.found THEN [error |-> "", value |-> negation.value]
  ELSE [error |-> "Could not parse proposition."]

\* ParseProposition from the general infix on (1459-1465): ParseInfix is
\* called with no operator disallowed.
PropositionOfInfix(h, s, too_much, infix) ==
  IF infix.error # "" THEN infix
  ELSE IF infix.found THEN [error |-> "", value |-> [predicate |-> infix.value]]
  ELSE PropositionOfNegation(ParseNegationOfSpan(h, s, too_much))

\* ParseProposition from the call on (1444-1465).
PropositionOfCall(h, s, too_much, call) ==
  IF call.error # "" THEN call
  ELSE IF call.found THEN [error |-> "", value |-> [predicate |-> call.value]]
  ELSE PropositionOfInfix(h, s, too_much, ParseInfix(h, s, too_much, {}))

\* ParseProposition once ParseDisjunction has split the span at `|`.
PropositionOfDisjuncts(h, s, too_much, disjuncts) ==
  IF disjuncts.state = "thrown" THEN [error |-> disjuncts.what]
  ELSE PropositionOfCall(h, s, too_much, ParseCallOfSpan(h, s, too_much))

\* ParseProposition on such a text, which has no `|`, `,`, `=>`, `==`, `&&`,
\* ` in ` and no `=`: the productions that can match are the call, the infix
\* expression and the negation.  [error], with the proposition in value
\* when "".
ParseProposition(h, s, too_much) ==
  PropositionOfDisjuncts(h, s, too_much, Split(h, s, <<"|">>))


-----
(* A process that calls ParseFile several times, on sources of the one     *)
(* rule `Q(x) :- x == E` with or without the incantation in a comment.     *)

MaxParses == 3

MaxInfixPieces == 3

InfixPieces == {<<"1">>, <<"-", "-", "-">>}

ProcessSources ==
  [incantation : BOOLEAN, expression : TextsOver(InfixPieces, MaxInfixPieces)]

RuleText(source) == Chars("Q(x) :- x == ") \o source.expression

\* ParseUnification and ParseRule once both sides are parsed: the rules of
\* the file, or the exception.
UnificationRule(full_text, lhs, rhs) ==
  IF lhs.error # "" THEN [state |-> "thrown", what |-> lhs.error]
  ELSE IF rhs.error # "" THEN [state |-> "thrown", what |-> rhs.error]
  ELSE [state |-> "returned",
        value |-> <<[full_text |-> full_text,
                     head |-> PredicateProp("Q").predicate,
                     body |-> [conjunction |-> [conjunct |->
                       <<[unification |-> [left_hand_side |-> lhs.value,
                                           right_hand_side |-> rhs.value]]>>]]]>>]

\* ParseUnification on the body `x == E`.
ParseUnification(h, s, body, too_much) ==
  UnificationRule(Str(view(h, s)),
                  WithHeritage(h, Split(h, body, <<"=", "=">>).value[1],
                     ActuallyParseExpression(h, Split(h, body, <<"=", "=">>).value[1], too_much)),
                  WithHeritage(h, Split(h, body, <<"=", "=">>).value[2],
                     ActuallyParseExpression(h, Split(h, body, <<"=", "=">>).value[2], too_much)))

\* ParseFile on the text of the rule, with TOO_MUCH as EnactIncantations has
\* left it.
ParseFile(h, too_much) ==
  ParseUnification(h, Strip(h, Whole(h)),
                   Split(h, Strip(h, Whole(h)), <<":", "-">>).value[2], too_much)

\* ParseFile on each source under each value of TOO_MUCH, computed once.
ParseFileTable ==
  {<<source, too_much, ParseFile(RuleText(source), too_much)>> :
     source \in ProcessSources, too_much \in {"too much", "fun"}}

ParseFileOn(source, too_much) ==
  (CHOOSE row \in ParseFileTable : row[1] = source /\ row[2] = too_much)[3]

InitProcess ==
  /\ TOO_MUCH = "too much"
  /\ parses = <<>>
  /\ record_call = <<>>
  /\ record_result = <<>>
  /\ heritage = <<>>
  /\ separator = <<>>
  /\ traverser = [idx |-> -1, state |-> <<>>, more |-> FALSE]
  /\ steps = <<>>
  /\ returned = <<>>
  /\ statements = <<>>
  /\ stage = "idle"
  /\ error = ""
  /\ rules_in = <<>>
  /\ rules_prev = <<>>
  /\ rules = <<>>
  /\ content = <<>>
  /\ fs = <<>>
  /\ stack = <<>>
  /\ parsed_imports = <<>>
  /\ in_progress = {}
  /\ outcome = [state |-> "idle"]
  /\ registered = <<>>
  /\ clock = 0

\* One call of ParseFile from the process: EnactIncantations, then the parse.
ParseFileCall ==
  /\ Len(parses) < MaxParses
  /\ \E source \in ProcessSources :
       /\ TOO_MUCH' = EnactIncantations(source.incantation, TOO_MUCH)
       /\ parses' = Append(parses,
            [source |-> source,
             result |-> ParseFileOn(source, EnactIncantations(source.incantation, TOO_MUCH))])
  /\ UNCHANGED <<rvars, ivars, tvars, cvars>>

NextProcess == ParseFileCall

SpecProcess == InitProcess /\ [][NextProcess]_vars

-----------------------------------------------------------------------------
(* One call of ParseRecordInternals (logica_parse.cpp 880-978) on the      *)
(* field values of a record text.                                          *)

MaxRecordEntries == 3

\* `..r`
RestOf == [kind |-> "restof", expr |-> "r"]

\* `*: x`, a named field whose name is the one a rest-of entry is given.
Starred == [kind |-> "named", field |-> "*", value |-> "x"]

\* `b:`, a named field that stands for `b: b`.
Shorthand == [kind |-> "named", field |-> "b", value |-> ""]

RecordEntries == {Positional, Named, Aggregated, RestOf, Starred, Shorthand}

RecordEntryLists == UNION {[1..n -> RecordEntries] : n \in 0..MaxRecordEntries}

\* The flags of the callers: a record literal (608), a call in a body or an
\* expression (1079, 1250, 1263, 1628), the call of a head (1250).
RecordFlags ==
  {[is_record_literal |-> TRUE, is_aggregation_allowed |-> FALSE],
   [is_record_literal |-> FALSE, is_aggregation_allowed |-> FALSE],
   [is_record_literal |-> FALSE, is_aggregation_allowed |-> TRUE]}

RecordCalls ==
  {[field_values |-> es, is_record_literal |-> f.is_record_literal,
    is_aggregation_allowed |-> f.is_aggregation_allowed] :
     es \in RecordEntryLists, f \in RecordFlags}

InitRecord ==
  /\ record_call \in RecordCalls
  /\ record_result = <<>>
  /\ statements = <<>>
  /\ stage = "idle"
  /\ error = ""
  /\ rules_in = <<>>
  /\ rules_prev = <<>>
  /\ rules = <<>>
  /\ content = <<>>
  /\ fs = <<>>
  /\ stack = <<>>
  /\ parsed_imports = <<>>
  /\ in_progress = {}
  /\ outcome = [state |-> "idle"]
  /\ registered = <<>>
  /\ clock = 0
  /\ heritage = <<>>
  /\ separator = <<>>
  /\ traverser = [idx |-> -1, state |-> <<>>, more |-> FALSE]
  /\ steps = <<>>
  /\ returned = <<>>
  /\ TOO_MUCH = "too much"
  /\ parses = <<>>

CallParseRecordInternals ==
  /\ record_call # <<>>
  /\ record_result = <<>>
  /\ record_result' = ParseRecordInternals(record_call.field_values,
                                           record_call.is_record_literal,
                                           record_call.is_aggregation_allowed)
  /\ UNCHANGED <<record_call, rvars, ivars, tvars, pvars>>

NextRecord == CallParseRecordInternals

SpecRecord == InitRecord /\ [][NextRecord]_vars

-----------------------------------------------------------------------------
(* ParseInfix, ParseExpression and ParseProposition called on the text of  *)
(* a chain of operands and operators, as ParseConjunction and the callers  *)
(* of ParseExpression call them: on a stripped span.                       *)

MaxOperands == 3

Operands == {Chars("a"), Chars("(a-1)"), Chars("b(a)")}

Operators == {Chars("+"), Chars(" - "), Chars("*"), Chars(" ~ ")}

\* A leading `-` or `~`, or none.
Prefixes == {<<>>, Chars("-"), Chars("~")}

RECURSIVE Chains(_)
\* The texts `e op e ... op e` of n operands.
Chains(n) ==
  IF n = 1 THEN Operands
  ELSE {c \o op \o e : c \in Chains(n - 1), op \in Operators, e \in Operands}

\* The chains of up to MaxOperands operands, and the shorter ones behind a
\* prefix.
ParseTexts ==
  UNION {Chains(n) : n \in 1..MaxOperands}
    \cup {p \o c : p \in Prefixes, c \in UNION {Chains(n) : n \in 1..(MaxOperands - 1)}}

\* The stripped span of the whole text.
StrippedWhole(h) == Strip(h, Whole(h))

\* TOO_MUCH is a global that an earlier ParseFile of the process may have
\* set to "fun".
InitParse ==
  /\ heritage \in ParseTexts
  /\ TOO_MUCH \in {"too much", "fun"}
  /\ returned = <<>>
  /\ separator = <<>>
  /\ traverser = [idx |-> -1, state |-> <<>>, more |-> FALSE]
  /\ steps = <<>>
  /\ parses = <<>>
  /\ record_call = <<>>
  /\ record_result = <<>>
  /\ statements = <<>>
  /\ stage = "idle"
  /\ error = ""
  /\ rules_in = <<>>
  /\ rules_prev = <<>>
  /\ rules = <<>>
  /\ content = <<>>
  /\ fs = <<>>
  /\ stack = <<>>
  /\ parsed_imports = <<>>
  /\ in_progress = {}
  /\ outcome = [state |-> "idle"]
  /\ registered = <<>>
  /\ clock = 0

CallParseInfix ==
  /\ heritage \in ParseTexts
  /\ ~HasKey(returned, "ParseInfix")
  /\ returned' = SetKey(returned, "ParseInfix", ParseInfix(heritage, StrippedWhole(heritage), TOO_MUCH, {}))
  /\ UNCHANGED <<heritage, separator, traverser, steps, rvars, ivars, pvars, cvars>>

CallParseExpression ==
  /\ HasKey(returned, "ParseInfix")
  /\ ~HasKey(returned, "ParseExpression")
  /\ returned' = SetKey(returned, "ParseExpression", WithHeritage(heritage, StrippedWhole(heritage),
         ActuallyParseExpression(heritage, StrippedWhole(heritage), TOO_MUCH)))
  /\ UNCHANGED <<heritage, separator, traverser, steps, rvars, ivars, pvars, cvars>>

CallParseProposition ==
  /\ HasKey(returned, "ParseExpression")
  /\ ~HasKey(returned, "ParseProposition")
  /\ returned' = SetKey(returned, "ParseProposition", ParseProposition(heritage, StrippedWhole(heritage), TOO_MUCH))
  /\ UNCHANGED <<heritage, separator, traverser, steps, rvars, ivars, pvars, cvars>>

NextParse ==
  \/ CallParseInfix
  \/ CallParseExpression
  \/ CallParseProposition

SpecParse == InitParse /\ [][NextParse]_vars

-----------------------------------------------------------------------------
(* Properties of DnfRewrite.                                               *)

\* A disjunction node is reachable from object o by a walk that does not
\* descend into the keys of `skip`.
RECURSIVE HasDisjunction(_, _)
HasDisjunction(o, skip) ==
  \/ HasKey(o, "disjunction")
  \/ \E k \in (DOMAIN o) \ skip :
       IF k \in ArrayKeys THEN \E i \in DOMAIN o[k] : HasDisjunction(o[k][i], skip)
       ELSE IsObjectKey(k) /\ HasDisjunction(o[k], skip)

BodiesOf(rs) == {rs[i].body : i \in {j \in DOMAIN rs : HasKey(rs[j], "body")}}

\* C1 as stated: after DnfRewrite no disjunction node is reachable from the
\* body of any output rule, at any depth.
C1_NoDisjunctionAtAnyDepth ==
  stage = "dnf" => \A b \in BodiesOf(rules) : ~HasDisjunction(b, {})

\* C1, amended: after DnfRewrite no disjunction node is reachable from the
\* body of an output rule unless the walk passes through a combine
\* expression; the disjunctions inside combine bodies stay where they were.
C1_NoDisjunctionOutsideCombine ==
  stage = "dnf" => \A b \in BodiesOf(rules) : ~HasDisjunction(b, {"combine"})

\* C1 witness: DnfRewrite has run on a one-rule file whose body has a
\* disjunction outside every combine and one under a negation, and an output
\* rule still holds the latter.
C1_Witness ==
  /\ stage = "dnf"
  /\ Len(rules_prev) = 1
  /\ \E b \in BodiesOf(rules_prev) : HasDisjunction(b, {"combine"})
  /\ \E b \in BodiesOf(rules) : HasDisjunction(b, {})

\* The number of conjunct lists of the disjunctive normal form of p.
RECURSIVE NumAlt(_)
NumAlt(p) ==
  IF HasKey(p, "conjunction")
    THEN ProdSeq([i \in DOMAIN p.conjunction.conjunct |-> NumAlt(p.conjunction.conjunct[i])])
  ELSE IF HasKey(p, "disjunction")
    THEN SumSeq([i \in DOMAIN p.disjunction.disjunct |-> NumAlt(p.disjunction.disjunct[i])])
  ELSE 1

\* Alternatives of the parts before part i of a disjunction.
AltBefore(d, i) == SumSeq([j \in 1..(i - 1) |-> NumAlt(d[j])])

\* Alternatives of the parts after part i of a conjunction.
AltAfter(c, i) == ProdSeq([j \in 1..(Len(c) - i) |-> NumAlt(c[i + j])])

\* The k-th conjunct list (from 1) of the disjunctive normal form of p:
\* a disjunction lists the alternatives of its parts one part after another, a
\* conjunction counts through the alternatives of its parts like the digits
\* of a number, the leftmost part being the most significant digit.
RECURSIVE Alt(_, _)
Alt(p, k) ==
  IF HasKey(p, "conjunction")
    THEN Flatten([i \in DOMAIN p.conjunction.conjunct |->
                    Alt(p.conjunction.conjunct[i],
                        (((k - 1) \div AltAfter(p.conjunction.conjunct, i))
                           % NumAlt(p.conjunction.conjunct[i])) + 1)])
  ELSE IF HasKey(p, "disjunction")
    THEN Alt(p.disjunction.disjunct[
               CHOOSE i \in DOMAIN p.disjunction.disjunct :
                 /\ AltBefore(p.disjunction.disjunct, i) < k
                 /\ k <= AltBefore(p.disjunction.disjunct, i + 1)],
             k - AltBefore(p.disjunction.disjunct,
                   CHOOSE i \in DOMAIN p.disjunction.disjunct :
                     /\ AltBefore(p.disjunction.disjunct, i) < k
                     /\ k <= AltBefore(p.disjunction.disjunct, i + 1)))
  ELSE <<p>>

\* What the claim says one input rule becomes.
ExpectedOfRule(rule) ==
  IF ~HasKey(rule, "body") THEN <<rule>>
  ELSE [k \in 1..NumAlt(rule.body) |->
          [x \in DOMAIN rule |->
             IF x = "body" THEN [conjunction |-> [conjunct |-> Alt(rule.body, k)]]
             ELSE rule[x]]]

\* C2: DnfRewrite emits, rule by rule and in order, one rule per conjunct
\* list of the body's disjunctive normal form (leftmost conjunct slowest);
\* each output rule is the input rule with only `body` replaced by a single
\* conjunction whose conjuncts are neither conjunctions nor disjunctions; a
\* rule without a body passes through unchanged.
C2_OneRulePerConjunctList ==
  stage = "dnf" =>
    /\ rules = Flatten([i \in DOMAIN rules_prev |-> ExpectedOfRule(rules_prev[i])])
    /\ \A b \in BodiesOf(rules) :
         /\ DOMAIN b = {"conjunction"}
         /\ \A i \in DOMAIN b.conjunction.conjunct : ~IsCompound(b.conjunction.conjunct[i])

\* C2 witness: DnfRewrite has run on two rules, the first with a conjunction
\* of two disjunctions as its body and the second with a one-predicate body,
\* and has emitted five rules.
C2_Witness ==
  /\ stage = "dnf"
  /\ Len(rules_prev) = 2
  /\ HasKey(rules_prev[1], "body")
  /\ HasKey(rules_prev[1].body, "conjunction")
  /\ \A i \in DOMAIN rules_prev[1].body.conjunction.conjunct :
       HasKey(rules_prev[1].body.conjunction.conjunct[i], "disjunction")
  /\ Len(rules) = 5
  /\ HasKey(rules[5], "body")

-----------------------------------------------------------------------------
(* Properties of RewriteAggregationsAsExpressions.                         *)

\* The objects under an "aggregation" key reachable from object o, each with
\* the path of keys and array positions that leads to it.
RECURSIVE AggregationsAt(_, _)
AggregationsAt(o, path) ==
  (IF HasKey(o, "aggregation")
     THEN {[path |-> path, agg |-> o.aggregation]} ELSE {})
  \cup UNION {IF k \in ArrayKeys
                THEN UNION {AggregationsAt(o[k][i], path \o <<k, ToString(i)>>)
                            : i \in DOMAIN o[k]}
              ELSE IF IsObjectKey(k) THEN AggregationsAt(o[k], Append(path, k))
              ELSE {}
              : k \in DOMAIN o}

AggregationsOf(rs) == UNION {AggregationsAt(rs[i], <<ToString(i)>>) : i \in DOMAIN rs}

\* op' of the aggregation rewrite.
CallNameOf(operator) ==
  CASE operator = "+" -> "Agg+"
    [] operator = "++" -> "Agg++"
    [] operator = "*" -> "'*'"
    [] OTHER -> operator

\* The aggregation object `after` is what the rewrite makes of `before`.
IsConverted(before, after) ==
  /\ DOMAIN after = {"expression", "expression_heritage"}
  /\ after.expression_heritage = before.expression_heritage
  /\ DOMAIN after.expression = {"call", "expression_heritage"}
  /\ after.expression.expression_heritage = before.expression_heritage
  /\ after.expression.call.predicate_name = CallNameOf(before.operator)
  /\ Len(after.expression.call.record.field_value) = 1
  /\ after.expression.call.record.field_value[1].field = IntJ(0)
  /\ after.expression.call.record.field_value[1].value = [expression |-> before.argument]

-----------------------------------------------------------------------------
(* Properties of ParseRule.                                                *)

\* The head of the statement aggregates a field: `P(y? Max= x)`.
FieldAggregated(st) == \E i \in DOMAIN st.entries : st.entries[i].kind = "aggregated"

\* The head of the statement aggregates the predicate value: `P(x) Max= y`.
ValueAggregated(st) == Len(st.post) = 2 /\ st.post[1] # ""

WithoutDistinct(st) == st.after_distinct = NoDistinct

AggregationMessage ==
  "Aggregation appears in a non-distinct predicate. Did you forget distinct?"

-----------------------------------------------------------------------------
(* Properties of ParseFile with imports.                                   *)

StartsWith(str, start) == Len(str) >= Len(start) /\ SubSeq(str, 1, Len(start)) = start

\* The rules of the files `order` one file after the other.
RulesInOrder(order) == Flatten([i \in DOMAIN order |-> parsed_imports[order[i]].rule])

\* The rule statements of a text.
OwnStatements(text) == SelectSeq(text, LAMBDA st : ~HasKey(st, "import"))

\* The text of a rule statement.
StatementText(st) ==
  IF HasKey(st, "functor") THEN st.functor \o " := " \o st.definition \o "()" ELSE st.text

\* The head the source gives the rule of a statement.
StatementHead(st) == IF HasKey(st, "functor") THEN "@Make" ELSE st.name

\* C5 as stated: the result of a top-level ParseFile holds the top-level
\* file's own rules and then the rules of every imported file, in the order
\* in which the imports were stored in parsed_imports.
C5_ImportsInRegistrationOrder ==
  outcome.state = "returned" =>
    /\ Len(outcome.value.rule) = Len(OwnStatements(content)) + Len(RulesInOrder(registered))
    /\ \A i \in 1..Len(OwnStatements(content)) :
         outcome.value.rule[i].full_text = StatementText(OwnStatements(content)[i])
    /\ SubSeq(outcome.value.rule, Len(OwnStatements(content)) + 1, Len(outcome.value.rule))
         = RulesInOrder(registered)

\* The files a text imports.
FilesOf(text) ==
  {SplitImport(text[i].import).file :
     i \in {j \in DOMAIN text : /\ HasKey(text[j], "import")
                                /\ SplitImport(text[j].import).error = ""}}

\* The files reached from the files S by at most n more imports.
RECURSIVE ReachedFrom(_, _)
ReachedFrom(S, n) ==
  IF n = 0 THEN S
  ELSE ReachedFrom(S \cup UNION {FilesOf(fs[RelPath(f)]) :
                                   f \in {g \in S : RelPath(g) \in DOMAIN fs}}, n - 1)

\* The import graph under the top-level text has a cycle.
ImportCycle ==
  \E f \in ReachedFrom(FilesOf(content), Cardinality(DOMAIN fs)) :
    /\ RelPath(f) \in DOMAIN fs
    /\ f \in ReachedFrom(FilesOf(fs[RelPath(f)]), Cardinality(DOMAIN fs))

\* The file of the import statement the running call is at, "" if none.
FileAtImport ==
  IF AtImport /\ SplitImport(Head(Top.statements).import).error = ""
    THEN SplitImport(Head(Top.statements).import).file ELSE ""

FilesOnStack == {stack[i].file_name : i \in 2..Len(stack)}

\* C6: an import of a file whose parse is in progress makes ParseFile fail
\* at once with the circular-import error, whose chain names the files of
\* all calls in progress and then the imported file; in_progress is the set
\* of files whose parse is in progress; without a cycle in the import graph
\* no circular-import error is raised.
C6_CircularImportsDetected ==
  /\ [](outcome.state = "running" => in_progress = FilesOnStack)
  /\ []((outcome.state = "thrown"
           /\ StartsWith(outcome.what, "Circular imports are not allowed: "))
          => ImportCycle)
  /\ [][(FileAtImport # "" /\ FileAtImport \in FilesOnStack)
          => /\ outcome'.state = "thrown"
             /\ outcome'.what =
                  "Circular imports are not allowed: "
                  \o Join([i \in DOMAIN stack |-> stack[i].file_name], "->")
                  \o "->" \o FileAtImport]_vars

\* C6 witness: lib imports a.util, a.util imports lib, and ParseFile has
\* failed on the second import of lib.
C6_Witness ==
  /\ outcome.state = "thrown"
  /\ outcome.what = "Circular imports are not allowed: main->lib->a.util->lib"
  /\ Len(stack) = 3

HeadsOf(rs) == {HeadName(rs[i]) : i \in DOMAIN rs}

\* C7 as stated: every rule head of a parsed imported file starts with `@`,
\* equals `++?` or begins with the file's prefix; the top-level file has the
\* empty prefix and keeps its own predicate names.
C7_HeadsCarryPrefix ==
  /\ \A f \in DOMAIN parsed_imports :
       \A h \in HeadsOf(parsed_imports[f].rule) :
         \/ StartsWith(h, "@")
         \/ h = "++?"
         \/ StartsWith(h, parsed_imports[f].predicates_prefix)
  /\ outcome.state = "returned" =>
       /\ outcome.value.predicates_prefix = ""
       /\ \A i \in 1..Len(OwnStatements(content)) :
            HeadName(outcome.value.rule[i]) = StatementHead(OwnStatements(content)[i])

\* The prefixes of the claim for a file of segments parts: the capitalized
\* last segment plus `_`, with the n segments before it prepended.
RECURSIVE PrefixWith(_, _)
PrefixWith(parts, n) ==
  IF n = 0 THEN capitalize(parts[Len(parts)]) \o "_"
  ELSE parts[Len(parts) - n] \o PrefixWith(parts, n - 1)

\* The prefix the claim gives a file when the prefixes `taken` are in use:
\* the first free one, "" if every segment is used up.
ClaimedPrefix(parts, taken) ==
  IF \A n \in 0..(Len(parts) - 1) : PrefixWith(parts, n) \in taken THEN ""
  ELSE PrefixWith(parts, CHOOSE n \in 0..(Len(parts) - 1) :
                           /\ PrefixWith(parts, n) \notin taken
                           /\ \A m \in 0..(n - 1) : PrefixWith(parts, m) \in taken)

\* The prefixes of the files stored before the i-th.
PrefixesBefore(i) == {parsed_imports[registered[j]].predicates_prefix : j \in 1..(i - 1)}

\* C8 as stated: a file's prefix is its capitalized last segment plus `_`,
\* with earlier segments, the first included, prepended one at a time while
\* the prefix is taken by a file stored before; the prefix search fails only
\* when all segments are used up.
C8_PrefixFromSegments ==
  /\ \A i \in DOMAIN registered :
       parsed_imports[registered[i]].predicates_prefix
         = ClaimedPrefix(SplitOn(registered[i], "."), PrefixesBefore(i))
  /\ (outcome.state = "thrown" /\ outcome.what = "Import paths equal modulo _ and /.")
       => ClaimedPrefix(SplitOn(Top.file_name, "."), ExistingPrefixes(parsed_imports)) = ""

\* The predicates the text of a file defines or makes.
SourceCreated(text) ==
  {IF HasKey(text[i], "functor") THEN text[i].functor ELSE text[i].name :
     i \in {j \in DOMAIN text : ~HasKey(text[j], "import")}}

\* The import records of the files parsed to the end.
RecordsParsed ==
  UNION {Range(parsed_imports[f].imported_predicates) : f \in DOMAIN parsed_imports}
  \cup (IF outcome.state = "returned" THEN Range(outcome.value.imported_predicates) ELSE {})

\* C9 as stated: an import record whose predicate is neither defined nor
\* made in the imported file fails the parse of the importer, and the
\* 'imported but not defined' error is raised only for such a record.
C9_ImportChecked ==
  /\ \A ip \in RecordsParsed : ip.predicate_name \in SourceCreated(fs[RelPath(ip.file)])
  /\ (outcome.state = "thrown" /\ outcome.what = "Predicate imported but not defined.")
       => \E ip \in Range(Top.imported_predicates) :
            ip.predicate_name \notin SourceCreated(fs[RelPath(ip.file)])

\* The predicates the body of a rule statement calls, in order.
RefsOf(st) ==
  IF ~st.has_body THEN <<>>
  ELSE IF HasKey(st.body, "predicate") THEN <<st.body.predicate.predicate_name>>
  ELSE [j \in DOMAIN st.body.conjunction.conjunct |->
          st.body.conjunction.conjunct[j].predicate.predicate_name]

\* The predicates the body of a parsed rule calls, in order.
CalledBy(rule) ==
  IF ~HasKey(rule, "body") THEN <<>>
  ELSE [j \in DOMAIN rule.body.conjunction.conjunct |->
          rule.body.conjunction.conjunct[j].predicate.predicate_name]

\* C10 as stated, for the top-level file and its one rule: every call of a
\* record's synonym (of its predicate_name when it has none) has become a
\* call of import_prefix + predicate_name, no predicate name equals a
\* synonym any more, and no other predicate name has changed.
C10_SynonymsReplaced ==
  outcome.state = "returned" =>
    /\ HeadName(outcome.value.rule[1]) = OwnStatements(content)[1].name
    /\ Len(CalledBy(outcome.value.rule[1])) = Len(RefsOf(OwnStatements(content)[1]))
    /\ \A j \in DOMAIN RefsOf(OwnStatements(content)[1]) :
         \/ CalledBy(outcome.value.rule[1])[j] = RefsOf(OwnStatements(content)[1])[j]
         \/ \E ip \in Range(outcome.value.imported_predicates) :
              RefsOf(OwnStatements(content)[1])[j] = ImportedAs(ip)
    /\ \A ip \in Range(outcome.value.imported_predicates) :
         /\ \A j \in DOMAIN RefsOf(OwnStatements(content)[1]) :
              RefsOf(OwnStatements(content)[1])[j] = ImportedAs(ip)
                => CalledBy(outcome.value.rule[1])[j]
                     = parsed_imports[ip.file].predicates_prefix \o ip.predicate_name
         /\ ip.synonym # NoSynonym
              => /\ HeadName(outcome.value.rule[1]) # ip.synonym.str
                 /\ \A j \in DOMAIN CalledBy(outcome.value.rule[1]) :
                      CalledBy(outcome.value.rule[1])[j] # ip.synonym.str

\* The top-level call has ended its statement loop.
AtEndOfMain == Running /\ Len(stack) = 1 /\ Top.statements = <<>>

\* The top-level file's own rules as the merge finds them, with the error
\* raised before the merge, if any.
OwnAtMerge ==
  Renamed(Top, RewriteAggregationsAsExpressions(
                 MultiBodyAggregationRewrite(DnfRewrite(Top.rules)).new_rules),
          "", parsed_imports)

\* The names defined both by a top-level rule and by a rule of an imported
\* file.
DefinedOnBothSides ==
  {h \in HeadsOf(OwnAtMerge.rules) :
     \E f \in DOMAIN parsed_imports : h \in HeadsOf(parsed_imports[f].rule)}

\* Two imported files define the same name.
ImportsShareName ==
  \E f, g \in DOMAIN parsed_imports :
    f # g /\ HeadsOf(parsed_imports[f].rule) \cap HeadsOf(parsed_imports[g].rule) # {}

\* C11: when the top-level file merges its imports, ParseFile fails with
\* 'Predicate from file is overridden by importer.' if a name that does not
\* start with `@` is defined both by a top-level rule and by a rule of an
\* imported file; names that start with `@` defined on both sides raise no
\* error: the merge then returns.
C11_OverrideIsAnError ==
  [][(AtEndOfMain /\ OwnAtMerge.error = "")
       => /\ (\E h \in DefinedOnBothSides : ~StartsWith(h, "@"))
               => /\ outcome'.state = "thrown"
                  /\ outcome'.what = "Predicate from file is overridden by importer."
          /\ ((\A h \in DefinedOnBothSides : StartsWith(h, "@")) /\ ~ImportsShareName)
               => outcome'.state = "returned"]_vars

\* C11 witness: the top-level file defines Lib_Helper and imports Helper of
\* lib, whose rule has the head Lib_Helper, and ParseFile has failed at the
\* merge.
C11_Witness ==
  /\ outcome.state = "thrown"
  /\ outcome.what = "Predicate from file is overridden by importer."
  /\ Len(stack) = 1
  /\ \E i \in DOMAIN Top.rules : HeadName(Top.rules[i]) = "Lib_Helper"
  /\ "lib" \in DOMAIN parsed_imports
  /\ "Lib_Helper" \in HeadsOf(parsed_imports["lib"].rule)

-----------------------------------------------------------------------------
(* Properties of the Traverser and the span functions.                     *)

\* The text the way the specification reads it, character by character:
\* `mode` is where position i stands ("code", a comment or a string),
\* `brackets` the open brackets outside strings and comments, `ok` whether
\* every closing bracket matched and no newline stood in a "..." string, and
\* `kept` the characters outside comments.
RECURSIVE Scan(_, _, _, _, _, _)
Scan(v, i, mode, brackets, ok, kept) ==
  IF i > Len(v) THEN [mode |-> mode, brackets |-> brackets, ok |-> ok, kept |-> kept]
  ELSE
    CASE mode = "line comment" ->
           IF v[i] = "\n" THEN Scan(v, i + 1, "code", brackets, ok, Append(kept, v[i]))
           ELSE Scan(v, i + 1, mode, brackets, ok, kept)
      [] mode = "block comment" ->
           IF sub(v, i - 1, 2) = <<"*", "/">> THEN Scan(v, i + 2, "code", brackets, ok, kept)
           ELSE Scan(v, i + 1, mode, brackets, ok, kept)
      [] mode = "double quoted" ->
           Scan(v, i + 1, IF v[i] = "\"" THEN "code" ELSE mode, brackets,
                ok /\ v[i] # "\n", Append(kept, v[i]))
      [] mode = "single quoted" ->
           Scan(v, i + 1,
                IF v[i] = "'" THEN "code" ELSE IF v[i] = "\\" THEN "screened" ELSE mode,
                brackets, ok, Append(kept, v[i]))
      [] mode = "screened" -> Scan(v, i + 1, "single quoted", brackets, ok, Append(kept, v[i]))
      [] mode = "backtick" ->
           Scan(v, i + 1, IF v[i] = "bt" THEN "code" ELSE mode, brackets, ok, Append(kept, v[i]))
      [] mode = "triple quoted" ->
           IF sub(v, i - 1, 3) = <<"\"", "\"", "\"">>
             THEN Scan(v, i + 3, "code", brackets, ok, kept \o <<"\"", "\"", "\"">>)
             ELSE Scan(v, i + 1, mode, brackets, ok, Append(kept, v[i]))
      [] OTHER ->
           IF v[i] = "#" THEN Scan(v, i + 1, "line comment", brackets, ok, kept)
           ELSE IF sub(v, i - 1, 2) = <<"/", "*">>
             THEN Scan(v, i + 2, "block comment", brackets, ok, kept)
           ELSE IF sub(v, i - 1, 3) = <<"\"", "\"", "\"">>
             THEN Scan(v, i + 3, "triple quoted", brackets, ok, kept \o <<"\"", "\"", "\"">>)
           ELSE IF v[i] = "\"" THEN Scan(v, i + 1, "double quoted", brackets, ok, Append(kept, v[i]))
           ELSE IF v[i] = "'" THEN Scan(v, i + 1, "single quoted", brackets, ok, Append(kept, v[i]))
           ELSE IF v[i] = "bt" THEN Scan(v, i + 1, "backtick", brackets, ok, Append(kept, v[i]))
           ELSE IF v[i] \in {"(", "{", "["}
             THEN Scan(v, i + 1, mode, Append(brackets, v[i]), ok, Append(kept, v[i]))
           ELSE IF v[i] \in {")", "}", "]"}
             THEN IF brackets # <<>> /\ brackets[Len(brackets)] = kCloseToOpen[v[i]]
                    THEN Scan(v, i + 1, mode, SubSeq(brackets, 1, Len(brackets) - 1), ok,
                              Append(kept, v[i]))
                    ELSE Scan(v, i + 1, mode, brackets, FALSE, Append(kept, v[i]))
           ELSE Scan(v, i + 1, mode, brackets, ok, Append(kept, v[i]))

Scanned(v) == Scan(v, 1, "code", <<>>, TRUE, <<>>)

\* A whole span: its bracket, string and comment tower closes cleanly to
\* empty.
ClosesCleanly(v) ==
  Scanned(v).ok /\ Scanned(v).mode = "code" /\ Scanned(v).brackets = <<>>

Stripped == view(heritage, returned.Strip)

StripIsStable ==
  /\ Strip(heritage, returned.Strip) = returned.Strip
  /\ Stripped # <<>> => ~isspace(Stripped[1]) /\ ~isspace(Stripped[Len(Stripped)])

Inside(v) == SubSeq(v, 2, Len(v) - 1)

InParentheses(v) == Len(v) >= 2 /\ v[1] = "(" /\ v[Len(v)] = ")"

\* C12 as stated: Strip(Strip(s)) is the same sub-span as Strip(s), which has
\* no leading or trailing whitespace and is not `(` X `)` with X a whole
\* span.
C12_StripIdempotent ==
  HasKey(returned, "Strip") =>
    /\ StripIsStable
    /\ ~(InParentheses(Stripped) /\ ClosesCleanly(Inside(Stripped)))

\* No character of v belongs to a comment.
CommentFree(v) == Scanned(v).kept = v

\* The parts are consecutive sub-spans of the whole text with the separator
\* between them: joined with the separator they give the text back.
Reconstructs(h, sep, parts) ==
  /\ parts # <<>>
  /\ parts[1].start = 0
  /\ parts[Len(parts)].stop = Len(h)
  /\ \A k \in DOMAIN parts : parts[k].start <= parts[k].stop
  /\ \A k \in 1..(Len(parts) - 1) :
       /\ parts[k + 1].start = parts[k].stop + Len(sep)
       /\ sub(h, parts[k].stop, Len(sep)) = sep

SplitRoundTrip ==
  /\ returned.SplitRaw.state = "returned"
  /\ Reconstructs(heritage, separator, returned.SplitRaw.value)
  /\ returned.Split.state = "returned"
  /\ Len(returned.Split.value) = Len(returned.SplitRaw.value)
  /\ \A k \in DOMAIN returned.Split.value :
       returned.Split.value[k] = Strip(heritage, returned.SplitRaw.value[k])

\* C13 as stated: for a whole, comment-free span and a non-empty separator,
\* the parts of SplitRaw are consecutive sub-spans that, joined with the
\* separator, reconstruct the span, and Split returns as many parts, each the
\* Strip of the raw part.
C13_SplitRoundTrip ==
  (HasKey(returned, "Split") /\ ClosesCleanly(heritage) /\ CommentFree(heritage))
    => SplitRoundTrip

LastStatus == IF steps = <<>> THEN "OK" ELSE steps[Len(steps)].status

Traversed == ~traverser.more /\ HasKey(returned, "IsWhole")

\* C16 as stated: IsWhole(s) is true if and only if, after the Traverser has
\* consumed all of s, the last status is OK and the Traverser's stack is
\* empty.
C16_IsWholeIffStackEmpty ==
  Traversed => (returned.IsWhole <=> (LastStatus = "OK" /\ traverser.state = <<>>))

\* C17 as stated: RemoveComments fails on a text in which a `/*` opened
\* outside any string is never closed by `*/`.
C17_UnclosedCommentIsAnError ==
  (HasKey(returned, "RemoveComments") /\ Scanned(heritage).mode = "block comment")
    => returned.RemoveComments.state = "thrown"

\* The brackets outside strings and comments are matched and no newline
\* stands inside a "..." string.
WellBracketed(v) == Scanned(v).ok /\ Scanned(v).brackets = <<>>

\* C18 as stated: on a text with matched brackets and no newline inside a
\* double-quoted string, RemoveComments returns exactly the characters that
\* lie outside comments, each once and in order.
C18_RemoveCommentsKeepsCode ==
  (HasKey(returned, "RemoveComments") /\ WellBracketed(heritage))
    => returned.RemoveComments = [state |-> "returned", value |-> Scanned(heritage).kept]

StringModes == {"double quoted", "single quoted", "screened", "backtick", "triple quoted"}

\* The character at index idx (from 0) stands after the opening quote of a
\* string that has not been closed before it.
InsideString(v, idx) == Scanned(SubSeq(v, 1, idx)).mode \in StringModes

IsBracket(c) == c \in {"(", "{", "["}

BracketsOn(state) == SelectSeq(state, IsBracket)

\* C19 as stated: a step for a character inside a string of any kind neither
\* pushes nor pops a bracket symbol nor has status Unmatched, also when the
\* character follows a backslash inside '...'.
C19_NoBracketsInStrings ==
  [][(steps' # steps /\ InsideString(heritage, steps'[Len(steps')].idx))
       => /\ steps'[Len(steps')].status # "Unmatched"
          /\ BracketsOn(traverser'.state) = BracketsOn(traverser.state)]_vars

\* C20 as stated: if IsWhole(s) is true, no step of the traversal of s had
\* status Unmatched or EolInString.
C20_WholeHasNoBadStep ==
  (Traversed /\ returned.IsWhole) => \A k \in DOMAIN steps : steps[k].status = "OK"

-----------------------------------------------------------------------------
(* Properties of a process that parses several sources.                    *)

\* C14 as stated: a source without the incantation phrase gets the same
\* result from every ParseFile call of the process, whether or not an
\* earlier call parsed a source with the phrase.
C14_IncantationIsPerParse ==
  \A i, j \in DOMAIN parses :
    (parses[i].source = parses[j].source /\ ~parses[i].source.incantation)
      => parses[i].result = parses[j].result

-----------------------------------------------------------------------------
(* Properties of the heritage of the expressions of a parsed file.         *)

\* The keys under which a tree holds an expression.
ExpressionKeys == {"expression", "argument", "left_hand_side", "right_hand_side"}

\* The expression nodes of the tree o, at any depth.
RECURSIVE ExpressionNodes(_)
ExpressionNodes(o) ==
  UNION {IF k \in ScalarKeys THEN {}
         ELSE IF k \in ArrayKeys
           THEN UNION {ExpressionNodes(o[k][i]) : i \in DOMAIN o[k]}
         ELSE (IF k \in ExpressionKeys THEN {o[k]} ELSE {}) \cup ExpressionNodes(o[k])
         : k \in DOMAIN o}

\* C15: every expression node of the rules a successful parse returns carries
\* a non-empty expression_heritage, the nodes synthesized for a negation and
\* by the multi-body aggregation rewrite included.
C15_EveryExpressionHasHeritage ==
  stage = "rewritten" =>
    \A i \in DOMAIN rules :
      \A e \in ExpressionNodes(rules[i]) :
        HasKey(e, "expression_heritage") /\ e.expression_heritage # ""

-----------------------------------------------------------------------------
(* Properties of the split points of SplitRaw.                             *)

\* Index i of the text stands outside every bracket, string and comment, the
\* way the specification reads the text.
TopLevelAt(v, i) ==
  Scanned(SubSeq(v, 1, i)).mode = "code" /\ Scanned(SubSeq(v, 1, i)).brackets = <<>>

\* The top-level occurrences of the separator from index i on that do not
\* overlap an earlier one, `||` and word boundaries excepted.
RECURSIVE TopLevelSplits(_, _, _)
TopLevelSplits(v, sep, i) ==
  IF i >= Len(v) THEN {}
  ELSE IF SeparatorAt(v, sep, i) /\ TopLevelAt(v, i)
    THEN {i} \cup TopLevelSplits(v, sep, i + Len(sep))
  ELSE TopLevelSplits(v, sep, i + 1)

\* The indices at which the parts of a split end.
SplitPoints(parts) == {parts[k].stop : k \in 1..(Len(parts) - 1)}

\* C21: the split points of a SplitRaw that returns are exactly the top-level
\* occurrences of the separator: none inside brackets, a string or a comment
\* splits, and every top-level one that overlaps no earlier match does.
C21_SplitsOnlyAtTopLevel ==
  (HasKey(returned, "SplitRaw") /\ returned.SplitRaw.state = "returned")
    => SplitPoints(returned.SplitRaw.value) = TopLevelSplits(heritage, separator, 0)

-----------------------------------------------------------------------------
(* Properties of the records ParseRecordInternals returns.                 *)

RecordReturned == record_result # <<>> /\ record_result.error = ""

RecordThrown == record_result # <<>> /\ record_result.error # ""

KindAt(i) == record_call.field_values[i].kind

IsPositionalField(fv) == HasKey(fv.field, "int")

\* Some entry of one of the kinds stands before index j of the call.
KindBefore(kinds, j) == \E i \in 1..(j - 1) : KindAt(i) \in kinds

ExceptOf(fv) == IF HasKey(fv, "except") THEN fv.except ELSE <<>>

\* The entries of the call before index i.
EntriesBefore(i) == SubSeq(record_call.field_values, 1, i - 1)

IsNamedEntry(e) == e.kind \in {"named", "aggregated"}

\* The names of the named and aggregated entries before index i, in order.
NamedBefore(i) ==
  [j \in DOMAIN SelectSeq(EntriesBefore(i), IsNamedEntry) |->
     SelectSeq(EntriesBefore(i), IsNamedEntry)[j].field]

\* One name for every entry before index i, in order: the field of a named
\* or aggregated entry, `col<j>` for the positional entry at index j.
ObservedBefore(i) ==
  [j \in 1..(i - 1) |->
     IF KindAt(j) = "positional" THEN "col" \o ToString(j - 1)
     ELSE record_call.field_values[j].field]

\* C23 as stated: the `except` list of a rest-of entry holds exactly the
\* names of the named fields before it, in order; positional entries
\* contribute nothing.
C23_ExceptIsNamedFields ==
  RecordReturned =>
    \A i \in DOMAIN record_result.field_value :
      KindAt(i) = "restof" => ExceptOf(record_result.field_value[i]) = NamedBefore(i)

\* C23, amended: the `except` list of a rest-of entry holds, in order, one
\* name for every entry before it and nothing else: the field name of a named
\* or aggregated entry and `col<i>` for the positional entry at index i; the
\* key is there exactly when some entry stands before the rest-of entry.
C23_ExceptIsObservedFields ==
  RecordReturned =>
    \A i \in DOMAIN record_result.field_value :
      KindAt(i) = "restof" =>
        /\ ExceptOf(record_result.field_value[i]) = ObservedBefore(i)
        /\ HasKey(record_result.field_value[i], "except") <=> i > 1

\* A rest-of entry is returned after a positional and an aggregated entry.
C23_Witness ==
  /\ RecordReturned
  /\ Len(record_call.field_values) = 3
  /\ KindAt(1) = "positional" /\ KindAt(2) = "aggregated" /\ KindAt(3) = "restof"
  /\ HasKey(record_result.field_value[3], "except")

-----------------------------------------------------------------------------
(* Properties of MultiBodyAggregationRewrite.                              *)

IsDistinct(r) == HasKey(r, "distinct_denoted")

\* Some predicate of the rules has a distinct-denoted rule and one that is
\* not.
MixedDistinct(rs) ==
  \E i, j \in DOMAIN rs :
    HeadName(rs[i]) = HeadName(rs[j]) /\ IsDistinct(rs[i]) /\ ~IsDistinct(rs[j])

\* C25: MultiBodyAggregationRewrite does not return when a predicate of its
\* input has both a distinct-denoted rule and a rule that is not, wherever
\* the rule that is not stands.
C25_MixedDistinctIsAnError ==
  stage = "multi" => ~MixedDistinct(rules_prev)


RulesOf(rs, n) == SelectSeq(rs, LAMBDA r : HeadName(r) = n)

\* The predicates with two or more rules, all of them distinct-denoted.
MultiBodyPredicates(rs) ==
  {n \in {HeadName(rs[i]) : i \in DOMAIN rs} :
     Len(RulesOf(rs, n)) >= 2 /\ \A i \in DOMAIN RulesOf(rs, n) : IsDistinct(RulesOf(rs, n)[i])}

AuxName(n) == n \o "_MultBodyAggAux"

FieldsOf(r) == r.head.record.field_value

IsAggregatedFv(fv) == HasKey(fv.value, "aggregation")

\* `aux` is the rule r with the head renamed, the distinct mark removed and
\* every aggregated field replaced by its argument expression.
IsAuxiliaryOf(aux, r) ==
  /\ DOMAIN aux = DOMAIN r \ {"distinct_denoted"}
  /\ \A k \in DOMAIN aux : k # "head" => aux[k] = r[k]
  /\ HeadName(aux) = AuxName(HeadName(r))
  /\ DOMAIN FieldsOf(aux) = DOMAIN FieldsOf(r)
  /\ \A i \in DOMAIN FieldsOf(r) :
       IF IsAggregatedFv(FieldsOf(r)[i])
         THEN FieldsOf(aux)[i] =
                [field |-> FieldsOf(r)[i].field,
                 value |-> [expression |-> FieldsOf(r)[i].value.aggregation.argument]]
         ELSE FieldsOf(aux)[i] = FieldsOf(r)[i]

\* `agg` is the aggregating rule of the predicate whose rules were `of`.
IsAggregatingOf(agg, of) ==
  /\ IsDistinct(agg)
  /\ HeadName(agg) = HeadName(of)
  /\ DOMAIN FieldsOf(agg) = DOMAIN FieldsOf(of)
  /\ \A i \in DOMAIN FieldsOf(of) :
       /\ FieldsOf(agg)[i].field = FieldsOf(of)[i].field
       /\ IsAggregatedFv(FieldsOf(agg)[i]) <=> IsAggregatedFv(FieldsOf(of)[i])
       /\ IsAggregatedFv(FieldsOf(of)[i]) =>
            /\ FieldsOf(agg)[i].value.aggregation.operator
                 = FieldsOf(of)[i].value.aggregation.operator
            /\ FieldsOf(agg)[i].value.aggregation.argument.variable.var_name
                 = FieldsOf(of)[i].field
  /\ DOMAIN agg.body = {"conjunction"}
  /\ Len(agg.body.conjunction.conjunct) = 1
  /\ DOMAIN agg.body.conjunction.conjunct[1] = {"predicate"}
  /\ agg.body.conjunction.conjunct[1].predicate.predicate_name = AuxName(HeadName(of))

\* C24: when MultiBodyAggregationRewrite returns, every rule of a predicate
\* with two or more rules, all distinct-denoted, stands at its position as
\* the auxiliary rule, every other rule is unchanged, and after them comes
\* exactly one aggregating rule for each such predicate and nothing else.
C24_MultiBodyRewriteShape ==
  stage = "multi" =>
    /\ Len(rules) = Len(rules_prev) + Cardinality(MultiBodyPredicates(rules_prev))
    /\ \A i \in DOMAIN rules_prev :
         IF HeadName(rules_prev[i]) \in MultiBodyPredicates(rules_prev)
           THEN IsAuxiliaryOf(rules[i], rules_prev[i])
           ELSE rules[i] = rules_prev[i]
    /\ \A n \in MultiBodyPredicates(rules_prev) :
         /\ Cardinality({k \in DOMAIN rules : HeadName(rules[k]) = n}) = 1
         /\ Cardinality({k \in DOMAIN rules : HeadName(rules[k]) = AuxName(n)})
              = Len(RulesOf(rules_prev, n))
         /\ \E k \in (Len(rules_prev) + 1)..Len(rules) :
              \A i \in DOMAIN RulesOf(rules_prev, n) :
                IsAggregatingOf(rules[k], RulesOf(rules_prev, n)[i])

\* The rewrite has returned for a predicate with two distinct-denoted rules
\* that aggregate a field.
C24_Witness ==
  /\ stage = "multi"
  /\ \E n \in MultiBodyPredicates(rules_prev) :
       \E i \in DOMAIN FieldsOf(RulesOf(rules_prev, n)[1]) :
         IsAggregatedFv(FieldsOf(RulesOf(rules_prev, n)[1])[i])

-----------------------------------------------------------------------------
(* Properties of ParseInfix and ParseProposition on chains of operands.    *)

\* The span ParseInfix is called on, and its text.
ParsedSpan == StrippedWhole(heritage)

ParsedView == view(heritage, ParsedSpan)

\* The operators ParseInfix goes through, in its order.
TableOps == user_defined(TOO_MUCH) \o base

\* The top-level occurrences of the k-th operator in the text, by a scan
\* of the text that tracks strings and brackets.
TopLevelOf(k) == TopLevelSplits(ParsedView, Chars(TableOps[k]), 0)

OccurringOps == {k \in DOMAIN TableOps : TopLevelOf(k) # {}}

FirstOccurring == CHOOSE k \in OccurringOps : \A j \in OccurringOps : k <= j

LastOccurrence ==
  CHOOSE i \in TopLevelOf(FirstOccurring) : \A j \in TopLevelOf(FirstOccurring) : j <= i

\* The text before the last occurrence and the text after it, stripped.
LeftOperand ==
  Strip(heritage, SpanString(heritage, ParsedSpan.start, ParsedSpan.start + LastOccurrence))

RightOperand ==
  Strip(heritage,
        SpanString(heritage,
                   ParsedSpan.start + LastOccurrence + Len(TableOps[FirstOccurring]),
                   ParsedSpan.stop))

\* ParseInfix has returned on a text in which an operator of the table
\* occurs at top level with text on its left.
InfixReturned ==
  /\ HasKey(returned, "ParseInfix")
  /\ returned.ParseInfix.error = ""

BinaryCase == InfixReturned /\ OccurringOps # {} /\ size(LeftOperand) > 0

Operand(call, k) == call.record.field_value[k].value.expression

CallName(expression) ==
  IF HasKey(expression, "call") THEN expression.call.predicate_name ELSE ""

IsBinaryCall(call, name, left_text, right_text) ==
  /\ call.predicate_name = name
  /\ Len(call.record.field_value) = 2
  /\ call.record.field_value[1].field = StrJ("left")
  /\ call.record.field_value[2].field = StrJ("right")
  /\ Operand(call, 1).expression_heritage = left_text
  /\ Operand(call, 2).expression_heritage = right_text

\* `a op a op a` for one operator op is op(op(a, a), a).
OneOperatorChain(op) ==
  heritage = Chars("a") \o op \o Chars("a") \o op \o Chars("a")

ChainIsLeftAssociated(op) ==
  /\ returned.ParseInfix.found
  /\ CallName(Operand(returned.ParseInfix.value, 1)) = returned.ParseInfix.value.predicate_name
  /\ IsBinaryCall(Operand(returned.ParseInfix.value, 1).call,
                  returned.ParseInfix.value.predicate_name, "a", "a")
  /\ HasKey(Operand(returned.ParseInfix.value, 2), "variable")

\* `a+a*a` is +(a, *(a, a)).
SumOfProduct ==
  /\ returned.ParseInfix.found
  /\ returned.ParseInfix.value.predicate_name = "+"
  /\ HasKey(Operand(returned.ParseInfix.value, 1), "variable")
  /\ IsBinaryCall(Operand(returned.ParseInfix.value, 2).call, "*", "a", "a")

TildeBetweenOperands ==
  \E x, y \in Operands : heritage = x \o Chars(" ~ ") \o y

IsTildeCall(proposition) ==
  /\ proposition.error = ""
  /\ HasKey(proposition.value, "predicate")
  /\ proposition.value.predicate.predicate_name = "~"

\* C27: ParseProposition on `x ~ y`, a text with a non-empty left operand
\* that no earlier production matches, raises the error that negation is a
\* unary operator, and ParseProposition never returns a call named `~`.
C27_TildeIsUnaryAtProposition ==
  HasKey(returned, "ParseProposition") =>
    /\ TildeBetweenOperands =>
         returned.ParseProposition.error = "Negation \"~\" is a unary operator."
    /\ ~IsTildeCall(returned.ParseProposition)

-----------------------------------------------------------------------------
(* Properties of the prefixing of an imported file (lines 2205-2219).      *)

\* The statement loop of an imported file is over and its rewrites and its
\* prefix raise no error: the file's rules are about to be prefixed.
FileIsPrefixed ==
  /\ Running
  /\ Len(stack) > 1
  /\ Top.statements = <<>>
  /\ MultiBodyAggregationRewrite(DnfRewrite(Top.rules)).error = ""
  /\ PrefixOf(Top.file_name, ExistingPrefixes(parsed_imports)).error = ""

RulesBeforePrefix ==
  RewriteAggregationsAsExpressions(
    MultiBodyAggregationRewrite(DnfRewrite(Top.rules)).new_rules)

FilePrefix == PrefixOf(Top.file_name, ExistingPrefixes(parsed_imports)).prefix

RulesAfterPrefix ==
  RenameOwn(RulesBeforePrefix, InOrder(CreatedPredicates(RulesBeforePrefix)), FilePrefix)

IsExemptName(p) == p = "" \/ CharAt(p, 1) = "@" \/ p = "++?"

\* C30: the prefixing of an imported file maps the head name p of each of
\* its rules to prefix + p (names that start with `@` and `++?` excepted),
\* so two rules whose heads differ before the prefixing differ after it.
C30_PrefixingIsInjective ==
  FileIsPrefixed =>
    /\ \A i \in DOMAIN RulesBeforePrefix :
         ~IsExemptName(HeadName(RulesBeforePrefix[i])) =>
           HeadName(RulesAfterPrefix[i]) = FilePrefix \o HeadName(RulesBeforePrefix[i])
    /\ \A i, j \in DOMAIN RulesBeforePrefix :
         HeadName(RulesBeforePrefix[i]) # HeadName(RulesBeforePrefix[j]) =>
           HeadName(RulesAfterPrefix[i]) # HeadName(RulesAfterPrefix[j])

-----------------------------------------------------------------------------
(* Properties of the import cache.                                         *)

\* How many members of seq equal x.
CountIn(seq, x) == Cardinality({k \in DOMAIN seq : seq[k] = x})

\* The rules of all cached files.
CachedRules == RulesInOrder(InOrder(DOMAIN parsed_imports))

\* The rules of the result after the top-level file's own.
MergedRules ==
  SubSeq(outcome.value.rule, Len(OwnStatements(content)) + 1, Len(outcome.value.rule))

\* The files whose parse is in progress, the top-level one excepted.
FilesInProgress == [i \in 1..(Len(stack) - 1) |-> stack[i + 1].file_name]

\* Nothing is parsed a second time, where `same` tells when two import
\* strings name the same thing: no two parses that were stored, no parse in
\* progress and stored parse, no two parses in progress are of the same.
ParsedOnce(same(_, _)) ==
  /\ \A i, j \in DOMAIN registered : i # j => ~same(registered[i], registered[j])
  /\ \A i \in DOMAIN FilesInProgress, j \in DOMAIN registered :
       ~same(FilesInProgress[i], registered[j])
  /\ \A i, j \in DOMAIN FilesInProgress :
       i # j => ~same(FilesInProgress[i], FilesInProgress[j])

\* What is stored are the parses that completed, and a returned result
\* holds each rule of each stored parse as often as the stored parses do
\* and nothing else after the top-level file's rules.
CacheIsMerged ==
  /\ DOMAIN parsed_imports = {registered[i] : i \in DOMAIN registered}
  /\ outcome.state = "returned" =>
       /\ Len(MergedRules) = Len(CachedRules)
       /\ \A k \in DOMAIN CachedRules :
            CountIn(MergedRules, CachedRules[k]) = CountIn(CachedRules, CachedRules[k])

\* A stored parse, and so its prefix, is never replaced.
CacheIsKept ==
  \A f \in DOMAIN parsed_imports :
    f \in DOMAIN parsed_imports' /\ parsed_imports'[f] = parsed_imports[f]

SameFile(a, b) == RelPath(a) = RelPath(b)

SameImportString(a, b) == a = b

\* C28 as stated: within one ParseFile no file is read and parsed twice, a
\* stored parse keeps its prefix, and the result holds the rules of each
\* imported file once.
C28_EachFileParsedOnce ==
  /\ [](ParsedOnce(SameFile) /\ CacheIsMerged)
  /\ [][CacheIsKept]_vars

\* C28, amended: the same of each file import string, the text of an import
\* before the predicate name.
C28_EachImportStringParsedOnce ==
  /\ [](ParsedOnce(SameImportString) /\ CacheIsMerged)
  /\ [][CacheIsKept]_vars

\* C28 witness: ParseFile has returned on a text with two imports from lib,
\* which was parsed once.
C28_Witness ==
  /\ outcome.state = "returned"
  /\ registered = <<"lib">>
  /\ Cardinality({i \in DOMAIN content : HasKey(content[i], "import")}) = 2

\* The files the import records recs name.
FilesNamed(recs) == {recs[i].file : i \in DOMAIN recs}

\* Every file named in an imported_predicates record of the result or of a
\* stored parse is stored.
ImportedAreCached ==
  /\ FilesNamed(outcome.value.imported_predicates) \subseteq DOMAIN parsed_imports
  /\ \A f \in DOMAIN parsed_imports :
       FilesNamed(parsed_imports[f].imported_predicates) \subseteq DOMAIN parsed_imports

\* A running ParseFile has a next step: a statement to take, an import to
\* refuse, reuse or enter, or a finished file to refuse or return from.
HasNextStep ==
  \/ /\ Top.statements # <<>>
     /\ ~HasKey(Head(Top.statements), "import")
  \/ /\ AtImport
     /\ ImportError(SplitImport(Head(Top.statements).import), Top.import_chain,
                    parsed_imports, in_progress, fs) # ""
  \/ /\ AtImport
     /\ SplitImport(Head(Top.statements).import).error = ""
     /\ SplitImport(Head(Top.statements).import).file \in DOMAIN parsed_imports
  \/ /\ AtImport
     /\ ImportError(SplitImport(Head(Top.statements).import), Top.import_chain,
                    parsed_imports, in_progress, fs) = ""
     /\ SplitImport(Head(Top.statements).import).file \notin DOMAIN parsed_imports
  \/ /\ Top.statements = <<>>
     /\ Len(stack) >= 1

\* C29: ParseFile eventually returns or throws, whatever the files import
\* (while it runs it always has a next step, and the steps come to an end),
\* and when it returns in_progress is empty and every file named in an
\* imported_predicates record is in parsed_imports.
C29_ImportResolutionTerminates ==
  /\ [](Running => HasNextStep)
  /\ <>(outcome.state \in {"returned", "thrown"})
  /\ [](outcome.state = "returned" => in_progress = {} /\ ImportedAreCached)

\* C29 witness: ParseFile has returned after an imported file imported
\* another one.
C29_Witness ==
  /\ outcome.state = "returned"
  /\ \E f \in DOMAIN parsed_imports : parsed_imports[f].imported_predicates # <<>>

====
